---- MODULE Spec2Model ----
(***************************************************************************)
(* The log broadcaster of core/services/log/broadcaster.go as a state      *)
(* machine: the StartStopOnce life cycle, the await task, the resubscribe  *)
(* loop with its event loop, the mailboxes, the log pool, the              *)
(* registrations, the persistence of consumed broadcasts and the upstream  *)
(* chain that feeds the subscription and the backfill.                     *)
(***************************************************************************)
EXTENDS Integers, Sequences, FiniteSets, TLC

\* ------------------------------------------------------------------ bounds
MaxHead == 4
MaxQueue == 2
MaxDependents == 1
MaxTopics == 4
MaxLogs == 2
MaxIndex == 2

\* a nil pointer, an empty channel, an invalid null.Int64
Nil == -1

\* mailbox items of the wrong type: not a registration, not a models.Head
BadReg == "Bad"
BadHead == -2

\* ---------------------------------------------------------------- universe
\* The logs the chain can hold: id = (block_hash, log_index).
Chain ==
  [ LA |-> [blockHash |-> "hA", index |-> 0, blockNumber |-> 1, txIndex |-> 0,
            address |-> "C1", topic0 |-> "T1"],
    LB |-> [blockHash |-> "hB", index |-> 0, blockNumber |-> 2, txIndex |-> 0,
            address |-> "C2", topic0 |-> "T1"],
    LC |-> [blockHash |-> "hA", index |-> 1, blockNumber |-> 1, txIndex |-> 1,
            address |-> "C1", topic0 |-> "T1"],
    LD |-> [blockHash |-> "hB", index |-> 1, blockNumber |-> 2, txIndex |-> 1,
            address |-> "C1", topic0 |-> "T1"],
    LE |-> [blockHash |-> "hE", index |-> 2, blockNumber |-> 2, txIndex |-> 0,
            address |-> "C1", topic0 |-> "T1"] ]

\* every log a pool can hold; LE is of hE, a block that lost against hB
AllLogIds == DOMAIN Chain

\* the logs of the runs in which the chain is mined block by block
LogIds == {"LA", "LB"}

\* The registrations (listener, opts) the jobs of the node can make.
Regs ==
  [ R1 |-> [listener |-> "J1", contract |-> "C1", topics |-> {"T1"},
            numConfirmations |-> 2],
    R2 |-> [listener |-> "J2", contract |-> "C2", topics |-> {"T1"},
            numConfirmations |-> 0],
    R0 |-> [listener |-> "J0", contract |-> "C1", topics |-> {},
            numConfirmations |-> 0],
    R3 |-> [listener |-> "J3", contract |-> "C2", topics |-> {"T1"},
            numConfirmations |-> 1] ]

\* every registration a caller can try, R0 with an empty LogsWithTopics
AllRegIds == DOMAIN Regs

\* the registrations the jobs make, each with a LogsWithTopics element
RegIds == {"R1", "R2"}

\* the registrations used where the numbers of confirmations matter
ConfRegIds == {"R1", "R2", "R3"}

\* The configurations the node can run with.
Configs ==
  { [BlockBackfillSkip |-> FALSE, BlockBackfillDepth |-> 1, EthFinalityDepth |-> 0],
    [BlockBackfillSkip |-> TRUE,  BlockBackfillDepth |-> 1, EthFinalityDepth |-> 0],
    [BlockBackfillSkip |-> FALSE, BlockBackfillDepth |-> 0, EthFinalityDepth |-> 3] }

\* ------------------------------------------------------------------- state
VARIABLES
  state,                  \* utils.StartStopOnce
  chStop,                 \* TRUE once close(b.chStop) ran
  wgDone,                 \* counter of b.wgDone
  awaitPc,                \* awaitInitialSubscribers: "idle", "running", "done"
  loopPc,                 \* startResubscribeLoop: "idle", "subscribe", "backfill", "eventLoop", "onNewHeads", "done"
  closePc,                \* Close: "idle", "waiting" (in wgDone.Wait), "returned"
  dependents,             \* DependentAwaiter: dependents not yet ready
  config,
  highestSavedHead,
  backfillBlockNumber,    \* null.Int64: [Valid, Int64]
  connected,
  trackedAddressesCount,
  lastSeenHeadNumber,
  registrations,          \* registrations held by *registrations
  highestNumConfirmations,
  addSubscriber, rmSubscriber, newHeads,   \* utils.Mailbox
  replayChannel,          \* chan int64 of capacity 1
  logPool,
  chRawLogs,              \* the logs the event loop has still to receive
  needsResubscribe,       \* local of eventLoop
  subscription,           \* local of startResubscribeLoop
  newSubscription,        \* local of startResubscribeLoop
  newSubLogs,             \* newSubscription.Logs() before it is appended
  leaked,                 \* live subscriptions no variable refers to any more
  issued,                 \* registrations whose unsubscribe func is held by a job
  chainHead, orphaned,    \* the upstream chain
  trackerHead,            \* the last head the head tracker announced
  removedLogs,            \* logs whose removed=true copy the event loop processed
  consumed,               \* log_consumptions rows
  handled,                \* HandleLog calls made so far: (listener, log)
  event,                  \* the call the last step made or returned from
  early,                  \* registrations delivered while a dependent was not ready
  clock,                  \* a one-second window of the wall clock: [window, ticks, resubscribes]
  appendInputs,           \* the channels handed to appendLogChannel: [isNil, buf, closed, sent]
  appendTasks,            \* the goroutines of appendLogChannel: [pc, rawLog, chCombined]
  eventLoopSaw,           \* the logs received from the outermost chCombined
  backfillReader,         \* an external caller inside BackfillBlockNumber(): [pc, Int64, Valid]
  listenerState           \* what the listeners hold of the logs they processed: (listener, log)

vars == << state, chStop, wgDone, awaitPc, loopPc, closePc, dependents, config,
           highestSavedHead, backfillBlockNumber, connected,
           trackedAddressesCount, lastSeenHeadNumber, registrations,
           highestNumConfirmations, addSubscriber, rmSubscriber, newHeads,
           replayChannel, logPool, chRawLogs, needsResubscribe, subscription,
           newSubscription, newSubLogs, leaked, issued, chainHead, orphaned,
           trackerHead, removedLogs, consumed, handled, event, early, clock,
           appendInputs, appendTasks, eventLoopSaw, backfillReader,
           listenerState >>

\* groups used in UNCHANGED
lifeV == << state, chStop, wgDone, closePc >>
taskV == << awaitPc, loopPc >>
loopV == << highestSavedHead, backfillBlockNumber, connected,
            trackedAddressesCount, needsResubscribe, subscription,
            newSubscription, leaked >>
regV  == << registrations, highestNumConfirmations >>
boxV  == << addSubscriber, rmSubscriber, issued, early >>
logV  == << logPool, chRawLogs, newSubLogs, removedLogs >>
appendV == << appendInputs, appendTasks, eventLoopSaw >>
sideV == << appendV, backfillReader, listenerState >>
envV  == << dependents, config, chainHead, orphaned, trackerHead, clock,
            sideV >>
ormV  == << consumed, handled >>

\* ------------------------------------------------------- helper operators
Max(a, b) == IF a >= b THEN a ELSE b

Range(s) == { s[i] : i \in DOMAIN s }

\* ----------------------------------------------------------- utils.Mailbox
NoopSubscription == [live |-> FALSE, addresses |-> {}, topics |-> {}, alive |-> FALSE]

NewMailbox(capacity) == [queue |-> << >>, notify |-> FALSE, capacity |-> capacity]

\* Deliver: the newest item is always kept; on overflow the oldest is dropped.
Deliver(m, x) ==
  LET q == Append(m.queue, x)
      over == m.capacity > 0 /\ Len(q) > m.capacity
  IN  [m EXCEPT !.queue = IF over THEN Tail(q) ELSE q, !.notify = TRUE]

\* RetrieveLatestAndClear: the newest item, or Nil.
RetrieveLatest(m) == IF m.queue = << >> THEN Nil ELSE m.queue[Len(m.queue)]

Cleared(m) == [m EXCEPT !.queue = << >>, !.notify = FALSE]

\* the mailbox after RetrieveLatestAndClear: a pending notification stays
Retrieved(m) == [m EXCEPT !.queue = << >>]

\* ------------------------------------------------------------------ logPool
\* (block_number, tx_index, log_index) order of the logs handed to sendLogs
LogLess(a, b) ==
  \/ Chain[a].blockNumber < Chain[b].blockNumber
  \/ /\ Chain[a].blockNumber = Chain[b].blockNumber
     /\ \/ Chain[a].txIndex < Chain[b].txIndex
        \/ /\ Chain[a].txIndex = Chain[b].txIndex
           /\ Chain[a].index < Chain[b].index

RECURSIVE SortLogs(_)
SortLogs(S) ==
  IF S = {} THEN << >>
  ELSE LET m == CHOOSE x \in S : \A y \in S \ {x} : LogLess(x, y)
       IN  << m >> \o SortLogs(S \ {m})

BlockNumbers(S) == { Chain[l].blockNumber : l \in S }
MinBlock(S) == CHOOSE n \in BlockNumbers(S) : \A k \in BlockNumbers(S) : n <= k
MaxBlock(S) == CHOOSE n \in BlockNumbers(S) : \A k \in BlockNumbers(S) : n >= k

\* addLog: insert by (block_number, block_hash, log_index); same key overwrites
addLog(pool, l) == pool \cup {l}

\* removeLog: erase the entry matching (block_hash, log_index)
removeLog(pool, l) ==
  { p \in pool : ~ ( Chain[p].blockHash = Chain[l].blockHash
                     /\ Chain[p].index = Chain[l].index ) }

\* getLogsToSend: the logs with block_number <= latestBlockNum
getLogsToSend(pool, latestBlockNum) ==
  { l \in pool : Chain[l].blockNumber <= latestBlockNum }

\* deleteOlderLogs: evict everything strictly below keptDepth
deleteOlderLogs(pool, keptDepth) ==
  { l \in pool : Chain[l].blockNumber >= keptDepth }

\* ------------------------------------------------------------ registrations
highestOf(regs) ==
  IF regs = {} THEN 0
  ELSE LET ns == { Regs[r].numConfirmations : r \in regs }
       IN  CHOOSE n \in ns : \A k \in ns : n >= k

addressesOf(regs) == { Regs[r].contract : r \in regs }
topicsOf(regs) == UNION { Regs[r].topics : r \in regs }

\* addressesAndTopics: the union over all listeners
addressesAndTopics(regs) ==
  [addresses |-> addressesOf(regs), topics |-> topicsOf(regs)]

isAddressRegistered(regs, address) == address \in addressesOf(regs)

\* addSubscriber: TRUE if an address or topic is new, or the highest number
\* of confirmations grows
addSubscriberNeedsResub(regs, r) ==
  \/ Regs[r].contract \notin addressesOf(regs)
  \/ ~ (Regs[r].topics \subseteq topicsOf(regs))
  \/ Regs[r].numConfirmations > highestOf(regs)

\* removeSubscriber: TRUE if the filter shrinks
removeSubscriberNeedsResub(regs, r) ==
  /\ r \in regs
  /\ addressesAndTopics(regs \ {r}) # addressesAndTopics(regs)

\* an empty filter at a position rejects every value
filterAllowsStrict(filter, value) == value \in filter

\* LogsWithTopics: no filter or an empty filter for a field position means
\* that all values are allowed
filterAllows(filter, value) == filter = {} \/ value \in filter

RECURSIVE filtersContainValues(_, _)
\* the values of the indexed fields (topics[1..]) against the filters of the
\* same positions, position by position; a filter without a field to look at
\* passes only if it is empty
filtersContainValues(values, filters) ==
  IF filters = << >> THEN TRUE
  ELSE IF values = << >> THEN Head(filters) = {} /\ filtersContainValues(values, Tail(filters))
  ELSE /\ filterAllows(Head(filters), Head(values))
       /\ filtersContainValues(Tail(values), Tail(filters))

\* does a listener with options opts receive the raw log: its contract, one of
\* its event types (topics[0]) and the filters of that event type
LogMatches(opts, log) ==
  /\ log.address = opts.Contract
  /\ log.topics # << >>
  /\ Head(log.topics) \in DOMAIN opts.LogsWithTopics
  /\ filtersContainValues(Tail(log.topics), opts.LogsWithTopics[Head(log.topics)])

\* the ListenerOpts of registration r: its event types, without value filters
OptsOf(r) ==
  [Contract |-> Regs[r].contract,
   LogsWithTopics |-> [t \in Regs[r].topics |-> << >>],
   NumConfirmations |-> Regs[r].numConfirmations]

\* the raw log of l as the filters see it
TopicsOf(l) == [address |-> Chain[l].address, topics |-> << Chain[l].topic0 >>]

\* does listener registration r match log l
Matches(r, l) == LogMatches(OptsOf(r), TopicsOf(l))

Confirmed(r, l, headNumber) ==
  headNumber - Chain[l].blockNumber + 1 >= Regs[r].numConfirmations

ConsumedKey(r, l) ==
  [blockHash |-> Chain[l].blockHash, logIndex |-> Chain[l].index,
   jobID |-> Regs[r].listener]

RECURSIVE CallsFor(_, _)
\* the HandleLog calls for one log: one per member of rs
CallsFor(rs, l) ==
  IF rs = {} THEN << >>
  ELSE LET r == CHOOSE x \in rs : TRUE
       IN  << [listener |-> Regs[r].listener, log |-> l] >> \o CallsFor(rs \ {r}, l)

RECURSIVE sendLogs(_, _, _, _)
\* sendLogs: for each log in order, HandleLog on every matching, confirmed
\* listener whose key is not in alreadyConsumed
sendLogs(regs, logs, headNumber, alreadyConsumed) ==
  IF logs = << >> THEN << >>
  ELSE LET l  == Head(logs)
           rs == { r \in regs : /\ Matches(r, l)
                                /\ Confirmed(r, l, headNumber)
                                /\ ConsumedKey(r, l) \notin alreadyConsumed }
       IN  CallsFor(rs, l) \o sendLogs(regs, Tail(logs), headNumber, alreadyConsumed)

\* ---------------------------------------------------------------------- ORM
\* FindConsumedLogs: the rows with block_number in [lo, hi]
FindConsumedLogs(rows, lo, hi) ==
  { [blockHash |-> c.blockHash, logIndex |-> c.logIndex, jobID |-> c.jobID] :
      c \in { x \in rows : lo <= x.blockNumber /\ x.blockNumber <= hi } }

ConsumedRow(listener, l) ==
  [blockHash |-> Chain[l].blockHash, logIndex |-> Chain[l].index,
   jobID |-> listener, blockNumber |-> Chain[l].blockNumber]

\* ------------------------------------------------------------ ethSubscriber
FilterMatches(filter, l) ==
  /\ Chain[l].address \in filter.addresses
  /\ Chain[l].topic0 \in filter.topics

\* FilterLogs over [from, chainHead]: the canonical logs, in block order
backfilledLogs(from, filter, head, orph) ==
  SortLogs({ l \in LogIds : /\ l \notin orph
                            /\ from <= Chain[l].blockNumber
                            /\ Chain[l].blockNumber <= head
                            /\ FilterMatches(filter, l) })

RawOf(logs) == [i \in DOMAIN logs |-> [log |-> logs[i], removed |-> FALSE]]

\* -------------------------------------------------------------------- Init
NoEvent == [kind |-> "none"]

\* nobody is inside BackfillBlockNumber()
NoReader == backfillReader = [pc |-> "idle", Int64 |-> 0, Valid |-> FALSE]

\* no appendLogChannel goroutine is looked at
NoAppend ==
  /\ appendInputs = << >>
  /\ appendTasks = << >>
  /\ eventLoopSaw = << >>

\* NewBroadcaster: the state after construction
Constructed(saved) ==
  /\ state = "Unstarted"
  /\ chStop = FALSE
  /\ wgDone = 0
  /\ awaitPc = "idle"
  /\ loopPc = "idle"
  /\ closePc = "idle"
  /\ highestSavedHead = saved
  /\ backfillBlockNumber = [Valid |-> FALSE, Int64 |-> 0]
  /\ connected = FALSE
  /\ trackedAddressesCount = 0
  /\ lastSeenHeadNumber = 0
  /\ registrations = {}
  /\ highestNumConfirmations = 0
  /\ addSubscriber = NewMailbox(0)
  /\ rmSubscriber = NewMailbox(0)
  /\ newHeads = NewMailbox(1)
  /\ replayChannel = Nil
  /\ logPool = {}
  /\ removedLogs = {}
  /\ chRawLogs = << >>
  /\ needsResubscribe = FALSE
  /\ subscription = NoopSubscription
  /\ newSubscription = NoopSubscription
  /\ newSubLogs = << >>
  /\ leaked = 0
  /\ issued = {}
  /\ handled = {}
  /\ event = NoEvent
  /\ early = {}

Init ==
  /\ Constructed(Nil)
  /\ dependents \in 0..MaxDependents
  /\ config \in Configs
  /\ NoAppend
  /\ NoReader
  /\ listenerState = {}
  /\ chainHead = 0
  /\ trackerHead = 0
  /\ orphaned = {}
  /\ consumed = {}
  /\ clock = [window |-> "before", ticks |-> 0, resubscribes |-> 0]

\* a step that makes no dispatch pass, opens no subscription, starts no
\* backfill and returns from no Start or Close
Quiet == event' = NoEvent

\* -------------------------------------------------------------- life cycle
\* StartOnce of utils.StartStopOnce: succeeds only from Unstarted
StartOnce(st) == st = "Unstarted"

\* StopOnce of utils.StartStopOnce: succeeds only from Started
StopOnce(st) == st = "Started"

\* Start that runs startResubscribeLoop at once
StartResubscribing ==
  /\ IF StartOnce(state)
       THEN /\ state' = "Started"
            /\ wgDone' = wgDone + 1
            /\ loopPc' = "subscribe"
            /\ event' = [kind |-> "Start", err |-> FALSE]
       ELSE /\ event' = [kind |-> "Start", err |-> TRUE]
            /\ UNCHANGED << state, wgDone, loopPc >>
  /\ UNCHANGED << chStop, closePc, awaitPc, loopV, regV, boxV, logV, envV, ormV,
                  newHeads, replayChannel, lastSeenHeadNumber >>

\* Start
Start ==
  /\ IF StartOnce(state)
       THEN /\ state' = "Started"
            /\ wgDone' = wgDone + 2
            /\ awaitPc' = "running"
            /\ event' = [kind |-> "Start", err |-> FALSE]
       ELSE /\ event' = [kind |-> "Start", err |-> TRUE]
            /\ UNCHANGED << state, wgDone, awaitPc >>
  /\ UNCHANGED << chStop, closePc, loopPc, loopV, regV, boxV, logV, envV, ormV,
                  newHeads, replayChannel, lastSeenHeadNumber >>

\* Close without StopOnce
CloseUnguarded ==
  /\ state' = "Stopped"
  /\ chStop' = TRUE
  /\ closePc' = "waiting"
  /\ event' = [kind |-> "Close", err |-> FALSE]
  /\ UNCHANGED << wgDone, taskV, loopV, regV, boxV, logV, envV, ormV,
                  newHeads, replayChannel, lastSeenHeadNumber >>

\* Close up to b.wgDone.Wait()
Close ==
  /\ IF StopOnce(state)
       THEN /\ state' = "Stopped"
            /\ chStop' = TRUE
            /\ closePc' = "waiting"
            /\ event' = [kind |-> "Close", err |-> FALSE]
       ELSE /\ event' = [kind |-> "Close", err |-> TRUE]
            /\ UNCHANGED << state, chStop, closePc >>
  /\ UNCHANGED << wgDone, taskV, loopV, regV, boxV, logV, envV, ormV,
                  newHeads, replayChannel, lastSeenHeadNumber >>

\* Close: b.wgDone.Wait() returns
CloseReturn ==
  /\ closePc = "waiting"
  /\ wgDone = 0
  /\ closePc' = "returned"
  /\ event' = [kind |-> "CloseReturned", err |-> FALSE]
  /\ UNCHANGED << state, chStop, wgDone, taskV, loopV, regV, boxV, logV, envV,
                  ormV, newHeads, replayChannel, lastSeenHeadNumber >>

\* DependentReady of the DependentAwaiter
DependentReady ==
  /\ dependents > 0
  /\ dependents' = dependents - 1
  /\ Quiet
  /\ UNCHANGED << lifeV, taskV, loopV, regV, boxV, logV, config, sideV, chainHead,
                  orphaned, trackerHead, clock, ormV, newHeads, replayChannel,
                  lastSeenHeadNumber >>

\* ---------------------------------------------------- subscriber mailboxes
\* x.(registration): the items of the queue that are registrations; the
\* others are logged and skipped
registrationsIn(queue) == SelectSeq(queue, LAMBDA x : x \in AllRegIds)

\* logger.Errorf("expected `registration`, got %T", x), if an item is skipped
TypeMismatch(box, queue) ==
  event' = IF \A i \in DOMAIN queue : queue[i] \in AllRegIds
             THEN NoEvent
             ELSE [kind |-> "typeMismatch", mailbox |-> box,
                   applied |-> Range(registrationsIn(queue))]

RECURSIVE onAddSubscribersRegsStopping(_, _)
\* onAddSubscribers leaving its loop at the first item of the wrong type
onAddSubscribersRegsStopping(regs, queue) ==
  IF queue = << >> \/ Head(queue) \notin AllRegIds THEN regs
  ELSE onAddSubscribersRegsStopping(regs \cup {Head(queue)}, Tail(queue))

\* onAddSubscribers: drain addSubscriber into the registrations
onAddSubscribersRegs(regs, queue) == regs \cup Range(registrationsIn(queue))

RECURSIVE onAddSubscribersResub(_, _)
onAddSubscribersResub(regs, queue) ==
  IF queue = << >> THEN FALSE
  ELSE IF Head(queue) \notin AllRegIds THEN onAddSubscribersResub(regs, Tail(queue))
  ELSE \/ addSubscriberNeedsResub(regs, Head(queue))
       \/ onAddSubscribersResub(regs \cup {Head(queue)}, Tail(queue))

\* onRmSubscribers: drain rmSubscriber out of the registrations
onRmSubscribersRegs(regs, queue) == regs \ Range(registrationsIn(queue))

RECURSIVE onRmSubscribersResub(_, _)
onRmSubscribersResub(regs, queue) ==
  IF queue = << >> THEN FALSE
  ELSE IF Head(queue) \notin AllRegIds THEN onRmSubscribersResub(regs, Tail(queue))
  ELSE \/ removeSubscriberNeedsResub(regs, Head(queue))
       \/ onRmSubscribersResub(regs \ {Head(queue)}, Tail(queue))

\* Register without the check of lines 197-199
RegisterUnchecked(r) ==
  /\ r \notin issued
  /\ Len(addSubscriber.queue) < MaxQueue
  /\ addSubscriber' = Deliver(addSubscriber, r)
  /\ issued' = issued \cup {r}
  /\ early' = IF dependents > 0 THEN early \cup {r} ELSE early
  /\ Quiet
  /\ UNCHANGED << lifeV, taskV, loopV, regV, rmSubscriber, logV, envV, ormV,
                  newHeads, replayChannel, lastSeenHeadNumber >>

\* Register: logger.Fatal on an empty LogsWithTopics (nothing is delivered, no
\* unsubscribe function is handed out); else deliver the registration and
\* hand out the unsubscribe function
Register(r) ==
  /\ r \notin issued
  /\ IF Regs[r].topics = {}
       THEN /\ event' = [kind |-> "Fatal", registration |-> r]
            /\ UNCHANGED << addSubscriber, issued, early >>
       ELSE /\ Len(addSubscriber.queue) < MaxQueue
            /\ addSubscriber' = Deliver(addSubscriber, r)
            /\ issued' = issued \cup {r}
            /\ early' = IF dependents > 0 THEN early \cup {r} ELSE early
            /\ Quiet
  /\ UNCHANGED << lifeV, taskV, loopV, regV, rmSubscriber, logV, envV, ormV,
                  newHeads, replayChannel, lastSeenHeadNumber >>

\* the unsubscribe function returned by Register
Unsubscribe(r) ==
  /\ r \in issued
  /\ Len(rmSubscriber.queue) < MaxQueue
  /\ rmSubscriber' = Deliver(rmSubscriber, r)
  /\ issued' = issued \ {r}
  /\ early' = early \ {r}
  /\ Quiet
  /\ UNCHANGED << lifeV, taskV, loopV, regV, addSubscriber, logV, envV, ormV,
                  newHeads, replayChannel, lastSeenHeadNumber >>

\* ------------------------------------------------- awaitInitialSubscribers
\* case <-b.addSubscriber.Notify()
AwaitAddSubscriber ==
  /\ awaitPc = "running"
  /\ addSubscriber.notify
  /\ registrations' = onAddSubscribersRegs(registrations, addSubscriber.queue)
  /\ highestNumConfirmations' = highestOf(registrations')
  /\ addSubscriber' = Cleared(addSubscriber)
  /\ TypeMismatch("addSubscriber", addSubscriber.queue)
  /\ UNCHANGED << lifeV, taskV, loopV, rmSubscriber, issued, early, logV, envV,
                  ormV, newHeads, replayChannel, lastSeenHeadNumber >>

\* case <-b.rmSubscriber.Notify()
AwaitRmSubscriber ==
  /\ awaitPc = "running"
  /\ rmSubscriber.notify
  /\ registrations' = onRmSubscribersRegs(registrations, rmSubscriber.queue)
  /\ highestNumConfirmations' = highestOf(registrations')
  /\ rmSubscriber' = Cleared(rmSubscriber)
  /\ TypeMismatch("rmSubscriber", rmSubscriber.queue)
  /\ UNCHANGED << lifeV, taskV, loopV, addSubscriber, issued, early, logV, envV,
                  ormV, newHeads, replayChannel, lastSeenHeadNumber >>

\* AwaitDependents of the DependentAwaiter: fires when no dependent is left
AwaitDependentsFired == dependents = 0

\* case <-b.DependentAwaiter.AwaitDependents()
AwaitDependents ==
  /\ awaitPc = "running"
  /\ AwaitDependentsFired
  /\ loopPc' = "subscribe"
  /\ awaitPc' = "done"
  /\ wgDone' = wgDone - 1
  /\ Quiet
  /\ UNCHANGED << state, chStop, closePc, loopV, regV, boxV, logV,
                  envV, ormV, newHeads, replayChannel, lastSeenHeadNumber >>

\* case <-b.chStop
AwaitStop ==
  /\ awaitPc = "running"
  /\ chStop
  /\ awaitPc' = "done"
  /\ wgDone' = wgDone - 1
  /\ Quiet
  /\ UNCHANGED << state, chStop, closePc, loopPc, loopV, regV, boxV,
                  logV, envV, ormV, newHeads, replayChannel, lastSeenHeadNumber >>

\* ---------------------------------------------------- startResubscribeLoop
\* the deferred calls of startResubscribeLoop: subscription.Unsubscribe() and
\* b.wgDone.Done(); a newSubscription that is still open is left behind
LoopReturn ==
  /\ loopPc' = "done"
  /\ wgDone' = wgDone - 1
  /\ subscription' = [subscription EXCEPT !.alive = FALSE]
  /\ leaked' = IF newSubscription.alive THEN leaked + 1 ELSE leaked
  /\ newSubscription' = NoopSubscription

\* createSubscription: abort on the shutdown signal, else a live subscription
createSubscriptionAbort == chStop

createSubscription(filter) ==
  [live |-> TRUE, addresses |-> filter.addresses, topics |-> filter.topics,
   alive |-> TRUE]

\* createSubscription: the upstream refuses the attempt; after the backoff
\* the next attempt is made
createSubscriptionRetry ==
  /\ loopPc = "subscribe"
  /\ ~ createSubscriptionAbort
  /\ event' = [kind |-> "createSubscriptionRetry"]
  /\ UNCHANGED << lifeV, taskV, loopV, regV, boxV, logV, envV, ormV, newHeads,
                  replayChannel, lastSeenHeadNumber >>

\* the prior subscription unsubscribed before the new one is opened
LoopSubscribeAfterUnsubscribe ==
  /\ loopPc = "subscribe"
  /\ IF createSubscriptionAbort
       THEN /\ LoopReturn
            /\ Quiet
       ELSE /\ newSubscription' = createSubscription(addressesAndTopics(registrations))
            /\ event' = [kind |-> "createSubscription",
                          first |-> ~ subscription.live,
                          addresses |-> addressesOf(registrations),
                          topics |-> topicsOf(registrations)]
            /\ loopPc' = "backfill"
            /\ subscription' = [subscription EXCEPT !.alive = FALSE]
            /\ UNCHANGED << wgDone, leaked >>
  /\ clock' = IF ~ createSubscriptionAbort /\ subscription.live /\ clock.window # "before"
                THEN [clock EXCEPT !.resubscribes = @ + 1]
                ELSE clock
  /\ early' = {}
  /\ UNCHANGED << state, chStop, closePc, awaitPc, highestSavedHead,
                  backfillBlockNumber, connected, trackedAddressesCount,
                  needsResubscribe, regV, addSubscriber, rmSubscriber, issued,
                  logV, dependents, config, sideV, chainHead, orphaned, trackerHead, ormV,
                  newHeads, replayChannel, lastSeenHeadNumber >>

\* lines 243-248: compute the filter and open the new subscription
LoopSubscribe ==
  /\ loopPc = "subscribe"
  /\ IF createSubscriptionAbort
       THEN /\ LoopReturn
            /\ Quiet
       ELSE /\ newSubscription' = createSubscription(addressesAndTopics(registrations))
            /\ event' = [kind |-> "createSubscription",
                          first |-> ~ subscription.live,
                          addresses |-> addressesOf(registrations),
                          topics |-> topicsOf(registrations)]
            /\ loopPc' = "backfill"
            /\ UNCHANGED << wgDone, subscription, leaked >>
  /\ clock' = IF ~ createSubscriptionAbort /\ subscription.live /\ clock.window # "before"
                THEN [clock EXCEPT !.resubscribes = @ + 1]
                ELSE clock
  /\ early' = {}
  /\ UNCHANGED << state, chStop, closePc, awaitPc, highestSavedHead,
                  backfillBlockNumber, connected, trackedAddressesCount,
                  needsResubscribe, regV, addSubscriber, rmSubscriber, issued,
                  logV, dependents, config, sideV, chainHead, orphaned, trackerHead, ormV,
                  newHeads, replayChannel, lastSeenHeadNumber >>

\* the saved head kept whatever BlockBackfillSkip says
SavedHeadSkipIgnored == highestSavedHead

\* lines 250-253: BlockBackfillSkip drops the saved head
SavedHeadAfterSkip ==
  IF config.BlockBackfillSkip /\ highestSavedHead # Nil THEN Nil ELSE highestSavedHead

\* the start of the backfill without the clamp at 0
BackfillFromUnclamped(saved) ==
  saved - highestNumConfirmations - config.BlockBackfillDepth

\* lines 255-270: the start of the backfill from the saved head
BackfillFrom(saved) ==
  LET from == saved - highestNumConfirmations - config.BlockBackfillDepth
  IN  IF from < 0 THEN 0 ELSE from

BackfillOverride ==
  IF SavedHeadAfterSkip # Nil
    THEN [Valid |-> TRUE, Int64 |-> BackfillFrom(SavedHeadAfterSkip)]
    ELSE backfillBlockNumber

\* backfillLogs: abort on the shutdown signal
backfillLogsAbort == chStop

\* backfillLogs: from the override when valid, else from the current head
backfillLogs(override, filter) ==
  backfilledLogs(IF override.Valid THEN override.Int64 ELSE chainHead,
                 filter, chainHead, orphaned)

\* the backfill entering the event loop with an emptied newHeads mailbox
LoopBackfillDroppingHeads ==
  /\ loopPc = "backfill"
  /\ highestSavedHead' = Nil
  /\ newHeads' = IF backfillLogsAbort THEN newHeads ELSE Cleared(newHeads)
  /\ IF backfillLogsAbort
       THEN /\ LoopReturn
            /\ backfillBlockNumber' = BackfillOverride
            /\ Quiet
            /\ UNCHANGED << connected, trackedAddressesCount, needsResubscribe,
                            logV >>
       ELSE /\ LET logs == backfillLogs(BackfillOverride, newSubscription)
               IN  /\ Len(chRawLogs) + Len(logs) + Len(newSubLogs) <= MaxQueue
                   /\ chRawLogs' = chRawLogs \o RawOf(logs) \o newSubLogs
            /\ event' = [kind |-> "backfillLogs", first |-> ~ subscription.live,
                          Valid |-> BackfillOverride.Valid,
                          Int64 |-> BackfillOverride.Int64,
                          saved |-> highestSavedHead]
            /\ backfillBlockNumber' = [Valid |-> FALSE, Int64 |-> 0]
            /\ newSubLogs' = << >>
            /\ subscription' = newSubscription
            /\ newSubscription' = NoopSubscription
            /\ connected' = TRUE
            /\ trackedAddressesCount' = Cardinality(newSubscription.addresses)
            /\ needsResubscribe' = FALSE
            /\ loopPc' = "eventLoop"
            /\ UNCHANGED << wgDone, leaked, logPool, removedLogs >>
  /\ UNCHANGED << state, chStop, closePc, awaitPc, regV,
                  boxV, envV, ormV, replayChannel, lastSeenHeadNumber >>

\* lines 250-298: backfill, rebuild chRawLogs, swap the subscriptions, connect
LoopBackfill ==
  /\ loopPc = "backfill"
  /\ highestSavedHead' = Nil
  /\ IF backfillLogsAbort
       THEN /\ LoopReturn
            /\ backfillBlockNumber' = BackfillOverride
            /\ Quiet
            /\ UNCHANGED << connected, trackedAddressesCount, needsResubscribe,
                            logV >>
       ELSE /\ LET logs == backfillLogs(BackfillOverride, newSubscription)
               IN  /\ Len(chRawLogs) + Len(logs) + Len(newSubLogs) <= MaxQueue
                   /\ chRawLogs' = chRawLogs \o RawOf(logs) \o newSubLogs
            /\ event' = [kind |-> "backfillLogs", first |-> ~ subscription.live,
                          Valid |-> BackfillOverride.Valid,
                          Int64 |-> BackfillOverride.Int64,
                          saved |-> highestSavedHead]
            /\ backfillBlockNumber' = [Valid |-> FALSE, Int64 |-> 0]
            /\ newSubLogs' = << >>
            /\ subscription' = newSubscription
            /\ newSubscription' = NoopSubscription
            /\ connected' = TRUE
            /\ trackedAddressesCount' = Cardinality(newSubscription.addresses)
            /\ needsResubscribe' = FALSE
            /\ loopPc' = "eventLoop"
            /\ UNCHANGED << wgDone, leaked, logPool, removedLogs >>
  /\ UNCHANGED << state, chStop, closePc, awaitPc, regV,
                  boxV, envV, ormV, newHeads, replayChannel, lastSeenHeadNumber >>

\* ---------------------------------------------------------------- eventLoop
\* onNewLog without the return after removeLog
onNewLogFallThrough(pool, regs, raw) ==
  LET removed == IF raw.removed THEN removeLog(pool, raw.log) ELSE pool
  IN  IF ~ isAddressRegistered(regs, Chain[raw.log].address) THEN removed
      ELSE addLog(removed, raw.log)

\* onNewLog without the isAddressRegistered test
onNewLogUnfiltered(pool, regs, raw) ==
  IF raw.removed THEN removeLog(pool, raw.log)
  ELSE addLog(pool, raw.log)

\* onNewLog
onNewLog(pool, regs, raw) ==
  IF raw.removed THEN removeLog(pool, raw.log)
  ELSE IF ~ isAddressRegistered(regs, Chain[raw.log].address) THEN pool
  ELSE addLog(pool, raw.log)

\* the raw-log case handing the log at once to the listeners that ask for no
\* confirmation
EvRawLogDispatching ==
  /\ loopPc = "eventLoop"
  /\ chRawLogs # << >>
  /\ logPool' = onNewLog(logPool, registrations, Head(chRawLogs))
  /\ chRawLogs' = Tail(chRawLogs)
  /\ removedLogs' = IF Head(chRawLogs).removed
                       THEN removedLogs \cup ({Head(chRawLogs).log} \cap logPool)
                       ELSE removedLogs \ {Head(chRawLogs).log}
  /\ Quiet
  /\ handled' = handled \cup
       { [listener |-> Regs[r].listener, log |-> Head(chRawLogs).log] :
           r \in { x \in registrations : /\ ~Head(chRawLogs).removed
                                          /\ Matches(x, Head(chRawLogs).log)
                                          /\ Regs[x].numConfirmations = 0 } }
  /\ UNCHANGED << lifeV, taskV, loopV, regV, boxV, newSubLogs, envV, consumed,
                  newHeads, replayChannel, lastSeenHeadNumber >>

\* case rawLog := <-chRawLogs
EvRawLog ==
  /\ loopPc = "eventLoop"
  /\ chRawLogs # << >>
  /\ logPool' = onNewLog(logPool, registrations, Head(chRawLogs))
  /\ chRawLogs' = Tail(chRawLogs)
  /\ removedLogs' = IF Head(chRawLogs).removed
                       THEN removedLogs \cup ({Head(chRawLogs).log} \cap logPool)
                       ELSE removedLogs \ {Head(chRawLogs).log}
  /\ Quiet
  /\ UNCHANGED << lifeV, taskV, loopV, regV, boxV, newSubLogs, envV, ormV,
                  newHeads, replayChannel, lastSeenHeadNumber >>

\* case rawLog := <-chRawLogs, observed: was the log in the pool already
EvRawLogSeen ==
  /\ loopPc = "eventLoop"
  /\ chRawLogs # << >>
  /\ logPool' = onNewLog(logPool, registrations, Head(chRawLogs))
  /\ chRawLogs' = Tail(chRawLogs)
  /\ removedLogs' = IF Head(chRawLogs).removed
                       THEN removedLogs \cup ({Head(chRawLogs).log} \cap logPool)
                       ELSE removedLogs \ {Head(chRawLogs).log}
  /\ event' = [kind |-> "rawLog", log |-> Head(chRawLogs).log,
               removed |-> Head(chRawLogs).removed,
               pooled |-> Head(chRawLogs).log \in logPool]
  /\ UNCHANGED << lifeV, taskV, loopV, regV, boxV, newSubLogs, envV, ormV,
                  newHeads, replayChannel, lastSeenHeadNumber >>

\* the depth kept from EthFinalityDepth alone
keptDepthOfFinalityOnly(latestBlockNum) ==
  LET keptDepth == latestBlockNum - config.EthFinalityDepth
  IN  IF keptDepth < 0 THEN 0 ELSE keptDepth

\* a depth kept that reaches the block after latestHead
keptDepthOfAhead(latestBlockNum) == latestBlockNum + 1

\* lines 397-406
keptDepthOf(latestBlockNum) ==
  LET keptLogsDepth == Max(config.EthFinalityDepth, highestNumConfirmations)
      keptDepth == latestBlockNum - keptLogsDepth
  IN  IF keptDepth < 0 THEN 0 ELSE keptDepth

\* FindConsumedLogs asked for the latest block only
consumedLogsForLatestOnly(lo, hi) == FindConsumedLogs(consumed, hi, hi)

\* lines 413, 424: b.orm.FindConsumedLogs(lowest, highest)
consumedLogsFor(lo, hi) == FindConsumedLogs(consumed, lo, hi)

\* sendLogs without the consumed broadcasts
sendLogsCallWithoutBroadcasts(logs, H, broadcasts) ==
  sendLogs(registrations, logs, H, {})

\* sendLogs with the head after latestHead
sendLogsCallNextHead(logs, H, broadcasts) ==
  sendLogs(registrations, logs, H + 1, broadcasts)

\* lines 418, 430: b.registrations.sendLogs(logs, *latestHead, broadcasts)
sendLogsCall(logs, H, broadcasts) == sendLogs(registrations, logs, H, broadcasts)

\* the dispatch pass without the returns of lines 414-417 and 425-428:
\* sendLogs is called although FindConsumedLogs failed
onNewHeadsPassDespiteError(H, ormErr) ==
  IF highestNumConfirmations = 0
    THEN LET logs == SortLogs(logPool)
             lo == IF logPool = {} THEN 0 ELSE MinBlock(logPool)
             hi == IF logPool = {} THEN 0 ELSE MaxBlock(logPool)
             queried == logs # << >>
         IN  [head |-> H, logs |-> logs, queried |-> queried, lo |-> lo, hi |-> hi,
              err |-> queried /\ ormErr,
              calls |-> IF queried
                          THEN sendLogsCall(logs, H, IF ormErr THEN {} ELSE consumedLogsFor(lo, hi))
                          ELSE << >>,
              pool |-> {}]
    ELSE LET toSend == getLogsToSend(logPool, H)
             logs == SortLogs(toSend)
             minBlockNum == IF toSend = {} THEN 0 ELSE MinBlock(toSend)
             queried == logs # << >>
         IN  [head |-> H, logs |-> logs, queried |-> queried,
              lo |-> minBlockNum, hi |-> H,
              err |-> queried /\ ormErr,
              calls |-> IF queried
                          THEN sendLogsCall(logs, H, IF ormErr THEN {} ELSE consumedLogsFor(minBlockNum, H))
                          ELSE << >>,
              pool |-> deleteOlderLogs(logPool, keptDepthOf(H))]

\* the dispatch pass handing sendLogs the logs of the pool last to first
onNewHeadsPassReversed(H, ormErr) ==
  IF highestNumConfirmations = 0
    THEN LET logs == SortLogs(logPool)
             lo == IF logPool = {} THEN 0 ELSE MinBlock(logPool)
             hi == IF logPool = {} THEN 0 ELSE MaxBlock(logPool)
             queried == logs # << >>
             broadcasts == consumedLogsFor(lo, hi)
         IN  [head |-> H, logs |-> logs, queried |-> queried, lo |-> lo, hi |-> hi,
              err |-> queried /\ ormErr,
              calls |-> IF queried /\ ~ ormErr
                          THEN sendLogsCall([i \in DOMAIN logs |-> logs[Len(logs) + 1 - i]], H, broadcasts)
                          ELSE << >>,
              pool |-> {}]
    ELSE LET toSend == getLogsToSend(logPool, H)
             logs == SortLogs(toSend)
             minBlockNum == IF toSend = {} THEN 0 ELSE MinBlock(toSend)
             queried == logs # << >>
             broadcasts == consumedLogsFor(minBlockNum, H)
         IN  [head |-> H, logs |-> logs, queried |-> queried,
              lo |-> minBlockNum, hi |-> H,
              err |-> queried /\ ormErr,
              calls |-> IF queried /\ ~ ormErr
                          THEN sendLogsCall([i \in DOMAIN logs |-> logs[Len(logs) + 1 - i]], H, broadcasts)
                          ELSE << >>,
              pool |-> IF queried /\ ormErr THEN logPool
                       ELSE deleteOlderLogs(logPool, keptDepthOf(H))]

\* the dispatch pass handing sendLogs every log of the pool twice
onNewHeadsPassTwice(H, ormErr) ==
  IF highestNumConfirmations = 0
    THEN LET logs == SortLogs(logPool)
             lo == IF logPool = {} THEN 0 ELSE MinBlock(logPool)
             hi == IF logPool = {} THEN 0 ELSE MaxBlock(logPool)
             queried == logs # << >>
             broadcasts == consumedLogsFor(lo, hi)
         IN  [head |-> H, logs |-> logs, queried |-> queried, lo |-> lo, hi |-> hi,
              err |-> queried /\ ormErr,
              calls |-> IF queried /\ ~ ormErr
                          THEN sendLogsCall(logs \o logs, H, broadcasts)
                          ELSE << >>,
              pool |-> {}]
    ELSE LET toSend == getLogsToSend(logPool, H)
             logs == SortLogs(toSend)
             minBlockNum == IF toSend = {} THEN 0 ELSE MinBlock(toSend)
             queried == logs # << >>
             broadcasts == consumedLogsFor(minBlockNum, H)
         IN  [head |-> H, logs |-> logs, queried |-> queried,
              lo |-> minBlockNum, hi |-> H,
              err |-> queried /\ ormErr,
              calls |-> IF queried /\ ~ ormErr
                          THEN sendLogsCall(logs \o logs, H, broadcasts)
                          ELSE << >>,
              pool |-> IF queried /\ ormErr THEN logPool
                       ELSE deleteOlderLogs(logPool, keptDepthOf(H))]

\* the dispatch pass asking for the consumptions up to latestHead also when
\* it drains the whole pool
onNewHeadsPassUpToHead(H, ormErr) ==
  IF highestNumConfirmations = 0
    THEN LET logs == SortLogs(logPool)
             lo == IF logPool = {} THEN 0 ELSE MinBlock(logPool)
             hi == H
             queried == logs # << >>
             broadcasts == consumedLogsFor(lo, hi)
         IN  [head |-> H, logs |-> logs, queried |-> queried, lo |-> lo, hi |-> hi,
              err |-> queried /\ ormErr,
              calls |-> IF queried /\ ~ ormErr
                          THEN sendLogsCall(logs, H, broadcasts)
                          ELSE << >>,
              pool |-> {}]
    ELSE LET toSend == getLogsToSend(logPool, H)
             logs == SortLogs(toSend)
             minBlockNum == IF toSend = {} THEN 0 ELSE MinBlock(toSend)
             queried == logs # << >>
             broadcasts == consumedLogsFor(minBlockNum, H)
         IN  [head |-> H, logs |-> logs, queried |-> queried,
              lo |-> minBlockNum, hi |-> H,
              err |-> queried /\ ormErr,
              calls |-> IF queried /\ ~ ormErr
                          THEN sendLogsCall(logs, H, broadcasts)
                          ELSE << >>,
              pool |-> IF queried /\ ormErr THEN logPool
                       ELSE deleteOlderLogs(logPool, keptDepthOf(H))]

\* lines 410-433: the dispatch pass for latestHead; ormErr: FindConsumedLogs fails
onNewHeadsPass(H, ormErr) ==
  IF highestNumConfirmations = 0
    THEN LET logs == SortLogs(logPool)
             lo == IF logPool = {} THEN 0 ELSE MinBlock(logPool)
             hi == IF logPool = {} THEN 0 ELSE MaxBlock(logPool)
             queried == logs # << >>
             broadcasts == consumedLogsFor(lo, hi)
         IN  [head |-> H, logs |-> logs, queried |-> queried, lo |-> lo, hi |-> hi,
              err |-> queried /\ ormErr,
              calls |-> IF queried /\ ~ ormErr
                          THEN sendLogsCall(logs, H, broadcasts)
                          ELSE << >>,
              pool |-> {}]
    ELSE LET toSend == getLogsToSend(logPool, H)
             logs == SortLogs(toSend)
             minBlockNum == IF toSend = {} THEN 0 ELSE MinBlock(toSend)
             queried == logs # << >>
             broadcasts == consumedLogsFor(minBlockNum, H)
         IN  [head |-> H, logs |-> logs, queried |-> queried,
              lo |-> minBlockNum, hi |-> H,
              err |-> queried /\ ormErr,
              calls |-> IF queried /\ ~ ormErr
                          THEN sendLogsCall(logs, H, broadcasts)
                          ELSE << >>,
              pool |-> IF queried /\ ormErr THEN logPool
                       ELSE deleteOlderLogs(logPool, keptDepthOf(H))]

\* onNewHeads without line 395: the number of latestHead is not stored
onNewHeadsWithoutStore(ormErr) ==
  LET item == RetrieveLatest(newHeads)
      latestHead == IF item = BadHead THEN Nil ELSE item
  IN  /\ newHeads' = Retrieved(newHeads)
      /\ IF latestHead = Nil
           THEN /\ event' = IF item = BadHead
                              THEN [kind |-> "typeMismatch", mailbox |-> "newHeads",
                                    applied |-> {}]
                              ELSE [kind |-> "onNewHeads", latestHead |-> Nil]
                /\ UNCHANGED << lastSeenHeadNumber, logPool, handled >>
           ELSE LET p == onNewHeadsPass(latestHead, ormErr)
                IN  /\ UNCHANGED lastSeenHeadNumber
                    /\ event' = [kind |-> "pass", head |-> p.head, logs |-> p.logs,
                                 queried |-> p.queried, lo |-> p.lo, hi |-> p.hi,
                                 err |-> p.err, calls |-> p.calls,
                                 again |-> Range(p.calls) \cap handled]
                    /\ logPool' = p.pool
                    /\ handled' = handled \cup Range(p.calls)

\* onNewHeads: only the most recent head of the mailbox is acted on; a
\* notification that finds the mailbox empty (latestHead = nil) does nothing
onNewHeads(ormErr) ==
  LET item == RetrieveLatest(newHeads)
      latestHead == IF item = BadHead THEN Nil ELSE item
  IN  /\ newHeads' = Retrieved(newHeads)
      /\ IF latestHead = Nil
           THEN /\ event' = IF item = BadHead
                              THEN [kind |-> "typeMismatch", mailbox |-> "newHeads",
                                    applied |-> {}]
                              ELSE [kind |-> "onNewHeads", latestHead |-> Nil]
                /\ UNCHANGED << lastSeenHeadNumber, logPool, handled >>
           ELSE LET p == onNewHeadsPass(latestHead, ormErr)
                IN  /\ lastSeenHeadNumber' = latestHead
                    /\ event' = [kind |-> "pass", head |-> p.head, logs |-> p.logs,
                                 queried |-> p.queried, lo |-> p.lo, hi |-> p.hi,
                                 err |-> p.err, calls |-> p.calls,
                                 again |-> Range(p.calls) \cap handled]
                    /\ logPool' = p.pool
                    /\ handled' = handled \cup Range(p.calls)

\* case <-b.newHeads.Notify(): the notification is received
EvNewHeads ==
  /\ loopPc = "eventLoop"
  /\ newHeads.notify
  /\ newHeads' = [newHeads EXCEPT !.notify = FALSE]
  /\ loopPc' = "onNewHeads"
  /\ Quiet
  /\ UNCHANGED << lifeV, awaitPc, loopV, regV, boxV, logV, envV, ormV,
                  replayChannel, lastSeenHeadNumber >>

\* line 330: b.onNewHeads(), then the select of the event loop again
EvOnNewHeads ==
  /\ loopPc = "onNewHeads"
  /\ \E ormErr \in BOOLEAN : onNewHeads(ormErr)
  /\ loopPc' = "eventLoop"
  /\ UNCHANGED << lifeV, awaitPc, loopV, regV, boxV, chRawLogs, newSubLogs,
                  removedLogs, envV, consumed, replayChannel >>

\* the chErr case without line 303: connected is left as it is
EvSubErrStillConnected ==
  /\ loopPc = "eventLoop"
  /\ subscription.live /\ subscription.alive
  /\ subscription' = [subscription EXCEPT !.alive = FALSE]
  /\ needsResubscribe' = FALSE
  /\ loopPc' = "subscribe"
  /\ Quiet
  /\ UNCHANGED << lifeV, awaitPc, highestSavedHead, backfillBlockNumber, connected,
                  trackedAddressesCount, newSubscription, leaked, regV, boxV, logV, envV, ormV, newHeads,
                  replayChannel, lastSeenHeadNumber >>

\* the chErr case ending the resubscribe loop instead of reconnecting
EvSubErrGivingUp ==
  /\ loopPc = "eventLoop"
  /\ subscription.live /\ subscription.alive
  /\ connected' = FALSE
  /\ needsResubscribe' = FALSE
  /\ LoopReturn
  /\ Quiet
  /\ UNCHANGED << state, chStop, closePc, awaitPc, highestSavedHead,
                  backfillBlockNumber, trackedAddressesCount, regV, boxV, logV, envV, ormV, newHeads,
                  replayChannel, lastSeenHeadNumber >>

\* lines 300-308 after eventLoop returned (true, err)
\* case err := <-chErr
EvSubErr ==
  /\ loopPc = "eventLoop"
  /\ subscription.live /\ subscription.alive
  /\ subscription' = [subscription EXCEPT !.alive = FALSE]
  /\ connected' = FALSE
  /\ needsResubscribe' = FALSE
  /\ loopPc' = "subscribe"
  /\ Quiet
  /\ UNCHANGED << lifeV, awaitPc, highestSavedHead, backfillBlockNumber,
                  trackedAddressesCount, newSubscription, leaked, regV, boxV, logV, envV, ormV, newHeads,
                  replayChannel, lastSeenHeadNumber >>

\* the addSubscriber case forgetting that the filter changed
EvAddSubscriberForgetful ==
  /\ loopPc = "eventLoop"
  /\ addSubscriber.notify
  /\ registrations' = onAddSubscribersRegs(registrations, addSubscriber.queue)
  /\ highestNumConfirmations' = highestOf(registrations')
  /\ addSubscriber' = Cleared(addSubscriber)
  /\ TypeMismatch("addSubscriber", addSubscriber.queue)
  /\ UNCHANGED << lifeV, taskV, highestSavedHead, backfillBlockNumber, connected,
                  trackedAddressesCount, needsResubscribe, subscription,
                  newSubscription, leaked, rmSubscriber, issued, early, logV,
                  envV, ormV, newHeads, replayChannel, lastSeenHeadNumber >>

\* the addSubscriber case returning from the event loop at once
EvAddSubscriberResubscribing ==
  /\ loopPc = "eventLoop"
  /\ addSubscriber.notify
  /\ registrations' = onAddSubscribersRegs(registrations, addSubscriber.queue)
  /\ highestNumConfirmations' = highestOf(registrations')
  /\ IF onAddSubscribersResub(registrations, addSubscriber.queue) \/ needsResubscribe
       THEN /\ loopPc' = "subscribe"
            /\ needsResubscribe' = FALSE
       ELSE UNCHANGED << loopPc, needsResubscribe >>
  /\ addSubscriber' = Cleared(addSubscriber)
  /\ TypeMismatch("addSubscriber", addSubscriber.queue)
  /\ UNCHANGED << lifeV, awaitPc, highestSavedHead, backfillBlockNumber, connected,
                  trackedAddressesCount, subscription, newSubscription, leaked,
                  rmSubscriber, issued, early, logV,
                  envV, ormV, newHeads, replayChannel, lastSeenHeadNumber >>

\* case <-b.addSubscriber.Notify()
EvAddSubscriber ==
  /\ loopPc = "eventLoop"
  /\ addSubscriber.notify
  /\ registrations' = onAddSubscribersRegs(registrations, addSubscriber.queue)
  /\ highestNumConfirmations' = highestOf(registrations')
  /\ needsResubscribe' =
       (onAddSubscribersResub(registrations, addSubscriber.queue) \/ needsResubscribe)
  /\ addSubscriber' = Cleared(addSubscriber)
  /\ TypeMismatch("addSubscriber", addSubscriber.queue)
  /\ UNCHANGED << lifeV, taskV, highestSavedHead, backfillBlockNumber, connected,
                  trackedAddressesCount, subscription, newSubscription, leaked,
                  rmSubscriber, issued, early, logV,
                  envV, ormV, newHeads, replayChannel, lastSeenHeadNumber >>

\* case <-b.rmSubscriber.Notify()
EvRmSubscriber ==
  /\ loopPc = "eventLoop"
  /\ rmSubscriber.notify
  /\ registrations' = onRmSubscribersRegs(registrations, rmSubscriber.queue)
  /\ highestNumConfirmations' = highestOf(registrations')
  /\ needsResubscribe' =
       (onRmSubscribersResub(registrations, rmSubscriber.queue) \/ needsResubscribe)
  /\ rmSubscriber' = Cleared(rmSubscriber)
  /\ TypeMismatch("rmSubscriber", rmSubscriber.queue)
  /\ UNCHANGED << lifeV, taskV, highestSavedHead, backfillBlockNumber, connected,
                  trackedAddressesCount, subscription, newSubscription, leaked,
                  addSubscriber, issued, early, logV,
                  envV, ormV, newHeads, replayChannel, lastSeenHeadNumber >>

\* onRmSubscribers that leaves the highest number of confirmations as it was
EvRmSubscriberSeenSticky ==
  /\ loopPc = "eventLoop"
  /\ rmSubscriber.notify
  /\ registrations' = onRmSubscribersRegs(registrations, rmSubscriber.queue)
  /\ highestNumConfirmations' = highestNumConfirmations
  /\ needsResubscribe' =
       (onRmSubscribersResub(registrations, rmSubscriber.queue) \/ needsResubscribe)
  /\ rmSubscriber' = Cleared(rmSubscriber)
  /\ event' = [kind |-> "onRmSubscribers", was |-> highestNumConfirmations,
               removed |-> Range(registrationsIn(rmSubscriber.queue))]
  /\ UNCHANGED << lifeV, taskV, highestSavedHead, backfillBlockNumber, connected,
                  trackedAddressesCount, subscription, newSubscription, leaked,
                  addSubscriber, issued, early, logV,
                  envV, ormV, newHeads, replayChannel, lastSeenHeadNumber >>

\* case <-b.rmSubscriber.Notify(), with what the drain did
EvRmSubscriberSeen ==
  /\ loopPc = "eventLoop"
  /\ rmSubscriber.notify
  /\ registrations' = onRmSubscribersRegs(registrations, rmSubscriber.queue)
  /\ highestNumConfirmations' = highestOf(registrations')
  /\ needsResubscribe' =
       (onRmSubscribersResub(registrations, rmSubscriber.queue) \/ needsResubscribe)
  /\ rmSubscriber' = Cleared(rmSubscriber)
  /\ event' = [kind |-> "onRmSubscribers", was |-> highestNumConfirmations,
               removed |-> Range(registrationsIn(rmSubscriber.queue))]
  /\ UNCHANGED << lifeV, taskV, highestSavedHead, backfillBlockNumber, connected,
                  trackedAddressesCount, subscription, newSubscription, leaked,
                  addSubscriber, issued, early, logV,
                  envV, ormV, newHeads, replayChannel, lastSeenHeadNumber >>

\* the replay case returning without setting the override
EvReplayWithoutOverride ==
  /\ loopPc = "eventLoop"
  /\ replayChannel # Nil
  /\ replayChannel' = Nil
  /\ needsResubscribe' = FALSE
  /\ loopPc' = "subscribe"
  /\ Quiet
  /\ UNCHANGED << lifeV, awaitPc, highestSavedHead, backfillBlockNumber, connected,
                  trackedAddressesCount, subscription, newSubscription, leaked,
                  regV, boxV, logV, envV, ormV,
                  newHeads, lastSeenHeadNumber >>

\* case blockNumber := <-b.replayChannel
EvReplay ==
  /\ loopPc = "eventLoop"
  /\ replayChannel # Nil
  /\ backfillBlockNumber' = [Valid |-> TRUE, Int64 |-> replayChannel]
  /\ replayChannel' = Nil
  /\ needsResubscribe' = FALSE
  /\ loopPc' = "subscribe"
  /\ Quiet
  /\ UNCHANGED << lifeV, awaitPc, highestSavedHead, connected,
                  trackedAddressesCount, subscription, newSubscription, leaked,
                  regV, boxV, logV, envV, ormV,
                  newHeads, lastSeenHeadNumber >>

\* case <-debounceResubscribe.C: the ticker of line 316 ticks once a second,
\* so at most once within the window
EvDebounce ==
  /\ loopPc = "eventLoop"
  /\ ~ (clock.window = "open" /\ clock.ticks = 1)
  /\ clock' = IF clock.window = "open" THEN [clock EXCEPT !.ticks = 1] ELSE clock
  /\ IF needsResubscribe
       THEN /\ loopPc' = "subscribe"
            /\ needsResubscribe' = FALSE
       ELSE UNCHANGED << loopPc, needsResubscribe >>
  /\ Quiet
  /\ UNCHANGED << lifeV, awaitPc, highestSavedHead, backfillBlockNumber, connected,
                  trackedAddressesCount, subscription, newSubscription, leaked,
                  regV, boxV, logV, dependents, config, sideV, chainHead, orphaned,
                  trackerHead, ormV,
                  newHeads, replayChannel, lastSeenHeadNumber >>

\* case <-b.chStop, then lines 305-307 and the deferred calls
EvStop ==
  /\ loopPc = "eventLoop"
  /\ chStop
  /\ connected' = FALSE
  /\ needsResubscribe' = FALSE
  /\ LoopReturn
  /\ Quiet
  /\ UNCHANGED << state, chStop, closePc, awaitPc, highestSavedHead,
                  backfillBlockNumber, trackedAddressesCount, regV, boxV, logV, envV, ormV, newHeads,
                  replayChannel, lastSeenHeadNumber >>

\* -------------------------------------------------------------- environment
\* what a subscription delivers of the raw logs raws
Delivered(sub, raws) ==
  SelectSeq(raws, LAMBDA x : sub.alive /\ FilterMatches(sub, x.log))

\* a new block: the upstream emits its logs on the open subscriptions
MineBlock ==
  /\ chainHead < MaxHead
  /\ chainHead' = chainHead + 1
  /\ LET raws == RawOf(SortLogs({ l \in LogIds \ orphaned :
                                    Chain[l].blockNumber = chainHead + 1 }))
     IN  /\ chRawLogs' = chRawLogs \o Delivered(subscription, raws)
         /\ newSubLogs' = newSubLogs \o Delivered(newSubscription, raws)
         /\ Len(chRawLogs') + Len(newSubLogs') <= MaxQueue
  /\ Quiet
  /\ UNCHANGED << lifeV, taskV, loopV, regV, boxV, logPool, removedLogs,
                  dependents, config, sideV, orphaned, trackerHead, clock, ormV, newHeads,
                  replayChannel, lastSeenHeadNumber >>

\* a Deliver of an item that is no registration, on the mailbox box
DeliverMalformed(box) ==
  /\ \/ /\ box = "addSubscriber"
        /\ Len(addSubscriber.queue) < MaxQueue
        /\ addSubscriber' = Deliver(addSubscriber, BadReg)
        /\ UNCHANGED << rmSubscriber, newHeads >>
     \/ /\ box = "rmSubscriber"
        /\ Len(rmSubscriber.queue) < MaxQueue
        /\ rmSubscriber' = Deliver(rmSubscriber, BadReg)
        /\ UNCHANGED << addSubscriber, newHeads >>
     \/ /\ box = "newHeads"
        /\ newHeads' = Deliver(newHeads, BadHead)
        /\ UNCHANGED << addSubscriber, rmSubscriber >>
  /\ Quiet
  /\ UNCHANGED << lifeV, taskV, loopV, regV, issued, early, logV, envV, ormV,
                  replayChannel, lastSeenHeadNumber >>

\* OnNewLongestChain: the head tracker announces the next head of the chain
OnNewLongestChain ==
  /\ trackerHead < chainHead
  /\ trackerHead' = trackerHead + 1
  /\ newHeads' = Deliver(newHeads, trackerHead + 1)
  /\ Quiet
  /\ UNCHANGED << lifeV, taskV, loopV, regV, boxV, logV, dependents, config, sideV,
                  chainHead, orphaned, clock, ormV, replayChannel,
                  lastSeenHeadNumber >>

\* a reorg orphans the block of log l: the subscriptions deliver l as removed
Reorg(l) ==
  /\ l \notin orphaned
  /\ Chain[l].blockNumber <= chainHead
  /\ orphaned' = orphaned \cup {l}
  /\ LET raws == << [log |-> l, removed |-> TRUE] >>
     IN  /\ chRawLogs' = chRawLogs \o Delivered(subscription, raws)
         /\ newSubLogs' = newSubLogs \o Delivered(newSubscription, raws)
         /\ Len(chRawLogs') + Len(newSubLogs') <= MaxQueue
  /\ Quiet
  /\ UNCHANGED << lifeV, taskV, loopV, regV, boxV, logPool, removedLogs,
                  dependents, config, sideV, chainHead, trackerHead, clock, ormV, newHeads,
                  replayChannel, lastSeenHeadNumber >>

\* a one-second window of the wall clock opens while the event loop runs
WindowOpen ==
  /\ clock.window = "before"
  /\ loopPc = "eventLoop"
  /\ clock' = [clock EXCEPT !.window = "open"]
  /\ Quiet
  /\ UNCHANGED << lifeV, taskV, loopV, regV, boxV, logV, dependents, config, sideV,
                  chainHead, orphaned, trackerHead, ormV, newHeads, replayChannel,
                  lastSeenHeadNumber >>

\* the second is over
WindowClose ==
  /\ clock.window = "open"
  /\ clock' = [clock EXCEPT !.window = "closed"]
  /\ Quiet
  /\ UNCHANGED << lifeV, taskV, loopV, regV, boxV, logV, dependents, config, sideV,
                  chainHead, orphaned, trackerHead, ormV, newHeads, replayChannel,
                  lastSeenHeadNumber >>

\* a Register call that arrives within the window, while the event loop runs
WindowRegister(r) == clock.window = "open" /\ loopPc = "eventLoop" /\ Register(r)

\* an unsubscribe call that arrives within the window, while the event loop runs
WindowUnsubscribe(r) == clock.window = "open" /\ loopPc = "eventLoop" /\ Unsubscribe(r)

ReplayBlocks == {0, 2}

\* a send that replaces the pending request
replayChannelSendOverwriting(number) == number

\* lines 162-165: the non-blocking send on the replay channel of capacity 1;
\* the default case drops the request when the channel is full
replayChannelSend(number) == IF replayChannel = Nil THEN number ELSE replayChannel

\* ReplayFromBlock
ReplayFromBlock(number) ==
  /\ replayChannel' = replayChannelSend(number)
  /\ Quiet
  /\ UNCHANGED << lifeV, taskV, loopV, regV, boxV, logV, envV, ormV, newHeads,
                  lastSeenHeadNumber >>

\* ReplayFromBlock, with the call observed
ReplayFromBlockCall(number) ==
  /\ replayChannel' = replayChannelSend(number)
  /\ event' = [kind |-> "ReplayFromBlock", number |-> number]
  /\ UNCHANGED << lifeV, taskV, loopV, regV, boxV, logV, envV, ormV, newHeads,
                  lastSeenHeadNumber >>

\* MarkConsumed by the listener that received the broadcast
MarkConsumed(c) ==
  /\ c \in handled
  /\ consumed' = consumed \cup { ConsumedRow(c.listener, c.log) }
  /\ Quiet
  /\ UNCHANGED << lifeV, taskV, loopV, regV, boxV, logV, envV, handled, newHeads,
                  replayChannel, lastSeenHeadNumber >>

\* the node restarts: NewBroadcaster on the same database and the same chain,
\* with deps dependents declared
Restart(deps) ==
  /\ state # "Unstarted"
  /\ state' = "Unstarted"
  /\ chStop' = FALSE
  /\ wgDone' = 0
  /\ awaitPc' = "idle"
  /\ loopPc' = "idle"
  /\ closePc' = "idle"
  /\ highestSavedHead' \in {Nil, trackerHead}
  /\ backfillBlockNumber' = [Valid |-> FALSE, Int64 |-> 0]
  /\ connected' = FALSE
  /\ trackedAddressesCount' = 0
  /\ lastSeenHeadNumber' = 0
  /\ registrations' = {}
  /\ highestNumConfirmations' = 0
  /\ addSubscriber' = NewMailbox(0)
  /\ rmSubscriber' = NewMailbox(0)
  /\ newHeads' = NewMailbox(1)
  /\ replayChannel' = Nil
  /\ logPool' = {}
  /\ removedLogs' = {}
  /\ chRawLogs' = << >>
  /\ needsResubscribe' = FALSE
  /\ subscription' = NoopSubscription
  /\ newSubscription' = NoopSubscription
  /\ newSubLogs' = << >>
  /\ leaked' = 0
  /\ issued' = {}
  /\ handled' = {}
  /\ event' = NoEvent
  /\ early' = {}
  /\ dependents' = deps
  /\ UNCHANGED << config, sideV, chainHead, orphaned, trackerHead, consumed, clock >>

\* --------------------------------------------------------------------- Next
Next ==
  \/ Start
  \/ Close
  \/ CloseReturn
  \/ DependentReady
  \/ \E r \in RegIds : Register(r)
  \/ \E r \in RegIds : Unsubscribe(r)
  \/ AwaitAddSubscriber
  \/ AwaitRmSubscriber
  \/ AwaitDependents
  \/ AwaitStop
  \/ LoopSubscribe
  \/ LoopBackfill
  \/ EvRawLog
  \/ EvNewHeads
  \/ EvOnNewHeads
  \/ EvSubErr
  \/ EvAddSubscriber
  \/ EvRmSubscriber
  \/ EvReplay
  \/ EvDebounce
  \/ EvStop
  \/ MineBlock
  \/ OnNewLongestChain
  \/ \E l \in LogIds : Reorg(l)
  \/ \E n \in ReplayBlocks : ReplayFromBlock(n)
  \/ \E c \in handled : MarkConsumed(c)
  \/ \E d \in 0..MaxDependents : Restart(d)

Spec == Init /\ [][Next]_vars

\* ------------------------------------------------------ sub-specifications
\* Start, Close, the dependents and the subscriber mailboxes, on a chain that
\* does not grow
NextLife ==
  \/ Start
  \/ Close
  \/ CloseReturn
  \/ DependentReady
  \/ \E r \in RegIds : Register(r)
  \/ \E r \in RegIds : Unsubscribe(r)
  \/ AwaitAddSubscriber
  \/ AwaitRmSubscriber
  \/ AwaitDependents
  \/ AwaitStop
  \/ LoopSubscribe
  \/ LoopBackfill
  \/ EvAddSubscriber
  \/ EvRmSubscriber
  \/ EvDebounce
  \/ EvStop

SpecLife == Init /\ [][NextLife]_vars

\* the first resubscribe of a node that restarts with a saved head
NextBackfill ==
  \/ Start
  \/ DependentReady
  \/ \E r \in RegIds : Register(r)
  \/ AwaitAddSubscriber
  \/ AwaitDependents
  \/ LoopSubscribe
  \/ LoopBackfill
  \/ EvRawLog
  \/ EvAddSubscriber
  \/ EvDebounce
  \/ MineBlock
  \/ OnNewLongestChain
  \/ \E d \in 0..MaxDependents : Restart(d)

SpecBackfill == Init /\ [][NextBackfill]_vars

\* a node without dependents and without BlockBackfillSkip
InitCore == Init /\ dependents = 0 /\ ~ config.BlockBackfillSkip

\* logs, heads, reorgs and dispatch passes of one run
NextDispatch ==
  \/ Start
  \/ \E r \in RegIds : Register(r)
  \/ AwaitAddSubscriber
  \/ AwaitDependents
  \/ LoopSubscribe
  \/ LoopBackfill
  \/ EvRawLog
  \/ EvNewHeads
  \/ EvOnNewHeads
  \/ EvSubErr
  \/ EvAddSubscriber
  \/ EvDebounce
  \/ MineBlock
  \/ OnNewLongestChain
  \/ \E l \in LogIds : Reorg(l)
  \/ \E c \in handled : MarkConsumed(c)

SpecDispatch == InitCore /\ [][NextDispatch]_vars

\* logs, heads and dispatch passes with replays and restarts
NextRedeliver ==
  \/ Start
  \/ \E r \in RegIds : Register(r)
  \/ AwaitAddSubscriber
  \/ AwaitDependents
  \/ LoopSubscribe
  \/ LoopBackfill
  \/ EvRawLog
  \/ EvNewHeads
  \/ EvOnNewHeads
  \/ EvSubErr
  \/ EvAddSubscriber
  \/ EvReplay
  \/ EvDebounce
  \/ MineBlock
  \/ OnNewLongestChain
  \/ \E n \in ReplayBlocks : ReplayFromBlock(n)
  \/ \E c \in handled : MarkConsumed(c)
  \/ Restart(0)

SpecRedeliver == InitCore /\ [][NextRedeliver]_vars

\* bursts of Register and unsubscribe calls that all arrive within one second
NextDebounce ==
  \/ Start
  \/ AwaitDependents
  \/ LoopSubscribe
  \/ LoopBackfill
  \/ WindowOpen
  \/ WindowClose
  \/ \E r \in RegIds : WindowRegister(r)
  \/ \E r \in RegIds : WindowUnsubscribe(r)
  \/ EvAddSubscriber
  \/ EvRmSubscriber
  \/ EvDebounce

SpecDebounce == InitCore /\ [][NextDebounce]_vars

\* registrations that reach a running broadcaster; Go's select takes a case
\* that stays ready, the ticker keeps ticking and no task stops by itself
NextCatchUp ==
  \/ Start
  \/ \E r \in RegIds : Register(r)
  \/ AwaitAddSubscriber
  \/ AwaitDependents
  \/ LoopSubscribe
  \/ LoopBackfill
  \/ EvAddSubscriber
  \/ EvDebounce

SpecCatchUp ==
  /\ InitCore
  /\ [][NextCatchUp]_vars
  /\ WF_vars(AwaitAddSubscriber)
  /\ WF_vars(AwaitDependents)
  /\ WF_vars(LoopSubscribe)
  /\ WF_vars(LoopBackfill)
  /\ WF_vars(EvAddSubscriber)
  /\ WF_vars(EvDebounce)

\* replay requests and the resubscribes they cause
NextReplay ==
  \/ Start
  \/ \E r \in RegIds : Register(r)
  \/ AwaitAddSubscriber
  \/ AwaitDependents
  \/ LoopSubscribe
  \/ LoopBackfill
  \/ EvRawLog
  \/ EvAddSubscriber
  \/ EvReplay
  \/ EvDebounce
  \/ MineBlock
  \/ \E n \in ReplayBlocks : ReplayFromBlockCall(n)

SpecReplay == InitCore /\ [][NextReplay]_vars

\* the connected flag over subscription errors, replays, debounce ticks and Close
NextConnected ==
  \/ Start
  \/ Close
  \/ CloseReturn
  \/ \E r \in RegIds : Register(r)
  \/ AwaitAddSubscriber
  \/ AwaitDependents
  \/ AwaitStop
  \/ LoopSubscribe
  \/ LoopBackfill
  \/ EvSubErr
  \/ EvAddSubscriber
  \/ EvReplay
  \/ EvDebounce
  \/ EvStop
  \/ \E n \in ReplayBlocks : ReplayFromBlock(n)

SpecConnected == InitCore /\ [][NextConnected]_vars

\* Register calls of every kind, the misuse with an empty LogsWithTopics included
NextMisuse ==
  \/ Start
  \/ DependentReady
  \/ \E r \in AllRegIds : Register(r)
  \/ \E r \in RegIds : Unsubscribe(r)
  \/ AwaitAddSubscriber
  \/ AwaitRmSubscriber
  \/ AwaitDependents
  \/ LoopSubscribe
  \/ LoopBackfill
  \/ EvAddSubscriber
  \/ EvRmSubscriber
  \/ EvDebounce

SpecMisuse == Init /\ [][NextMisuse]_vars

\* a broadcaster in its event loop with registrations and a filled pool: the
\* logs of registered addresses that arrived, in whatever order, and are not
\* yet evicted; heads 1..trackerHead were handled
InitPooled ==
  /\ state = "Started"
  /\ chStop = FALSE
  /\ wgDone = 1
  /\ awaitPc = "done"
  /\ loopPc = "eventLoop"
  /\ closePc = "idle"
  /\ highestSavedHead = Nil
  /\ backfillBlockNumber = [Valid |-> FALSE, Int64 |-> 0]
  /\ connected = TRUE
  /\ registrations \in (SUBSET RegIds) \ {{}}
  /\ highestNumConfirmations = highestOf(registrations)
  /\ trackedAddressesCount = Cardinality(addressesOf(registrations))
  /\ issued = registrations
  /\ subscription = createSubscription(addressesAndTopics(registrations))
  /\ newSubscription = NoopSubscription
  /\ logPool \in SUBSET { l \in AllLogIds :
                           isAddressRegistered(registrations, Chain[l].address) }
  /\ trackerHead \in 0..(MaxHead - 1)
  /\ lastSeenHeadNumber = trackerHead
  /\ chainHead = MaxHead
  /\ orphaned = {"LE"}
  /\ addSubscriber = NewMailbox(0)
  /\ rmSubscriber = NewMailbox(0)
  /\ newHeads = NewMailbox(1)
  /\ replayChannel = Nil
  /\ removedLogs = {}
  /\ chRawLogs = << >>
  /\ newSubLogs = << >>
  /\ needsResubscribe = FALSE
  /\ leaked = 0
  /\ handled = {}
  /\ consumed = {}
  /\ event = NoEvent
  /\ early = {}
  /\ dependents = 0
  /\ config \in Configs
  /\ NoAppend
  /\ NoReader
  /\ listenerState = {}
  /\ clock = [window |-> "before", ticks |-> 0, resubscribes |-> 0]

\* heads and dispatch passes over a filled pool
NextPooled ==
  \/ OnNewLongestChain
  \/ EvNewHeads
  \/ EvOnNewHeads

SpecPooled == InitPooled /\ [][NextPooled]_vars

\* raw logs that reach the event loop from the backfill and from the live
\* subscription, and the passes that dispatch them
NextDuplicates ==
  \/ Start
  \/ \E r \in RegIds : Register(r)
  \/ AwaitAddSubscriber
  \/ AwaitDependents
  \/ LoopSubscribe
  \/ LoopBackfill
  \/ EvRawLogSeen
  \/ EvNewHeads
  \/ EvOnNewHeads
  \/ EvAddSubscriber
  \/ EvDebounce
  \/ MineBlock
  \/ OnNewLongestChain

SpecDuplicates == InitCore /\ [][NextDuplicates]_vars

\* raw logs, removed ones and those of addresses no longer registered
\* included, as the event loop takes them in
NextAdmission ==
  \/ Start
  \/ \E r \in RegIds : Register(r)
  \/ \E r \in RegIds : Unsubscribe(r)
  \/ AwaitAddSubscriber
  \/ AwaitDependents
  \/ LoopSubscribe
  \/ LoopBackfill
  \/ EvRawLogSeen
  \/ EvRmSubscriber
  \/ MineBlock
  \/ \E l \in LogIds : Reorg(l)

SpecAdmission == InitCore /\ [][NextAdmission]_vars

\* subscription errors on a broadcaster that is not shut down: the upstream
\* may refuse attempts but accepts one in the end, and the resubscribe loop,
\* a task of its own, keeps running
NextRecovery ==
  \/ Start
  \/ \E r \in RegIds : Register(r)
  \/ AwaitAddSubscriber
  \/ AwaitDependents
  \/ createSubscriptionRetry
  \/ LoopSubscribe
  \/ LoopBackfill
  \/ EvSubErr
  \/ EvAddSubscriber

SpecRecovery ==
  /\ InitCore
  /\ [][NextRecovery]_vars
  /\ WF_vars(LoopSubscribe)
  /\ WF_vars(LoopBackfill)

\* a started broadcaster in its event loop, the pool holding the logs of the
\* registered addresses
InitMalformed ==
  /\ state = "Started"
  /\ chStop = FALSE
  /\ wgDone = 1
  /\ awaitPc = "done"
  /\ loopPc = "eventLoop"
  /\ closePc = "idle"
  /\ highestSavedHead = Nil
  /\ backfillBlockNumber = [Valid |-> FALSE, Int64 |-> 0]
  /\ connected = TRUE
  /\ registrations \in SUBSET RegIds
  /\ highestNumConfirmations = highestOf(registrations)
  /\ trackedAddressesCount = Cardinality(addressesOf(registrations))
  /\ issued = registrations
  /\ subscription = createSubscription(addressesAndTopics(registrations))
  /\ newSubscription = NoopSubscription
  /\ logPool = { l \in LogIds :
                   isAddressRegistered(registrations, Chain[l].address) }
  /\ trackerHead = MaxHead - 1
  /\ lastSeenHeadNumber = trackerHead
  /\ chainHead = MaxHead
  /\ orphaned = {}
  /\ addSubscriber = NewMailbox(0)
  /\ rmSubscriber = NewMailbox(0)
  /\ newHeads = NewMailbox(1)
  /\ replayChannel = Nil
  /\ removedLogs = {}
  /\ chRawLogs = << >>
  /\ newSubLogs = << >>
  /\ needsResubscribe = FALSE
  /\ leaked = 0
  /\ handled = {}
  /\ consumed = {}
  /\ event = NoEvent
  /\ early = {}
  /\ dependents = 0
  /\ config \in Configs
  /\ NoAppend
  /\ NoReader
  /\ listenerState = {}
  /\ clock = [window |-> "before", ticks |-> 0, resubscribes |-> 0]

\* mailboxes that are also handed items of the wrong type
NextMalformed ==
  \/ Register("R1")
  \/ Unsubscribe("R1")
  \/ \E box \in {"addSubscriber", "rmSubscriber", "newHeads"} : DeliverMalformed(box)
  \/ OnNewLongestChain
  \/ EvNewHeads
  \/ EvOnNewHeads
  \/ EvAddSubscriber
  \/ EvRmSubscriber

SpecMalformed == InitMalformed /\ [][NextMalformed]_vars

\* --------------------------------------------------------- appendLogChannel
\* the three channels of lines 291-292: chRawLogs of the previous turn,
\* chBackfilledLogs and newSubscription.Logs()
InputNames == {"prior", "backfilled", "live"}

NoLog == [from |-> "none", n |-> 0]

\* a channel as its sender sees it: the logs sent and not yet received, whether
\* it was closed, and every log ever sent on it
NewInput(isNil) == [isNil |-> isNil, buf |-> << >>, closed |-> FALSE, sent |-> << >>]

\* appendLogChannel: nil for two nil channels, else chCombined and the goroutine
\* that feeds it, which starts at `if ch1 != nil`
appendLogChannel(ch1Nil, ch2Nil) ==
  IF ch1Nil /\ ch2Nil
    THEN [pc |-> "none", rawLog |-> NoLog, chCombined |-> "nil"]
    ELSE [pc |-> "range1", rawLog |-> NoLog, chCombined |-> "open"]

\* ch1 and ch2 of the goroutine i: the inner one appends chBackfilledLogs to
\* the previous chRawLogs, the outer one appends newSubscription.Logs() to the
\* chCombined of the inner one
inputOf(i, k) ==
  CASE i = 1 /\ k = 1 -> "prior"
    [] i = 1 /\ k = 2 -> "backfilled"
    [] i = 2 /\ k = 2 -> "live"
    [] OTHER -> "chCombined"

chIsNil(i, k) ==
  IF inputOf(i, k) = "chCombined"
    THEN appendTasks[1].chCombined = "nil"
    ELSE appendInputs[inputOf(i, k)].isNil

\* a receive from the channel would return a log
chHasLog(i, k) ==
  IF inputOf(i, k) = "chCombined"
    THEN appendTasks[1].pc \in {"send1", "send2"}
    ELSE appendInputs[inputOf(i, k)].buf # << >>

chLog(i, k) ==
  IF inputOf(i, k) = "chCombined"
    THEN appendTasks[1].rawLog
    ELSE Head(appendInputs[inputOf(i, k)].buf)

\* a receive from the channel would report it closed
chDrained(i, k) ==
  IF inputOf(i, k) = "chCombined"
    THEN appendTasks[1].chCombined = "closed"
    ELSE /\ appendInputs[inputOf(i, k)].closed
         /\ appendInputs[inputOf(i, k)].buf = << >>

rangeOf(pc) == IF pc \in {"range1", "send1"} THEN 1 ELSE 2

\* the goroutine after `for rawLog := range ch` of its k-th channel ended
afterRange(task, k) ==
  IF k = 1 THEN [task EXCEPT !.pc = "range2"]
  ELSE [task EXCEPT !.pc = "returned", !.chCombined = "closed"]

\* the sender of a log, once the log is received
received(tasks, inputs, i, k) ==
  IF inputOf(i, k) = "chCombined"
    THEN << [tasks EXCEPT ![1].pc = IF tasks[1].pc = "send1" THEN "range1" ELSE "range2",
                          ![1].rawLog = NoLog],
            inputs >>
    ELSE << tasks,
            [inputs EXCEPT ![inputOf(i, k)].buf = Tail(inputs[inputOf(i, k)].buf)] >>

notAppendV == << lifeV, taskV, loopV, regV, boxV, logV, dependents, config,
                 chainHead, orphaned, trackerHead, clock, ormV, newHeads,
                 replayChannel, lastSeenHeadNumber, backfillReader,
                 listenerState >>

\* `for rawLog := range ch` that takes a channel that is open and holds
\* nothing for a drained one
AppendRangeImpatient(i) ==
  /\ i \in DOMAIN appendTasks
  /\ appendTasks[i].pc \in {"range1", "range2"}
  /\ LET k == rangeOf(appendTasks[i].pc)
     IN  IF chIsNil(i, k) \/ ~chHasLog(i, k)
           THEN /\ appendTasks' = [appendTasks EXCEPT ![i] = afterRange(@, k)]
                /\ UNCHANGED appendInputs
           ELSE LET r == received(appendTasks, appendInputs, i, k)
                IN  /\ appendTasks' = [r[1] EXCEPT ![i].pc = IF k = 1 THEN "send1" ELSE "send2",
                                                   ![i].rawLog = chLog(i, k)]
                    /\ appendInputs' = r[2]
  /\ Quiet
  /\ UNCHANGED << notAppendV, eventLoopSaw >>

\* `if ch != nil { for rawLog := range ch {`: a nil channel is passed over, a
\* closed and empty one ends the range, a log is received; the goroutine waits
\* while the channel is open and holds nothing
AppendRange(i) ==
  /\ i \in DOMAIN appendTasks
  /\ appendTasks[i].pc \in {"range1", "range2"}
  /\ LET k == rangeOf(appendTasks[i].pc)
     IN  IF chIsNil(i, k) \/ chDrained(i, k)
           THEN /\ appendTasks' = [appendTasks EXCEPT ![i] = afterRange(@, k)]
                /\ UNCHANGED appendInputs
           ELSE /\ chHasLog(i, k)
                /\ LET r == received(appendTasks, appendInputs, i, k)
                   IN  /\ appendTasks' = [r[1] EXCEPT ![i].pc = IF k = 1 THEN "send1" ELSE "send2",
                                                      ![i].rawLog = chLog(i, k)]
                       /\ appendInputs' = r[2]
  /\ Quiet
  /\ UNCHANGED << notAppendV, eventLoopSaw >>

\* case <-b.chStop: return, and the deferred close(chCombined)
AppendStop(i) ==
  /\ i \in DOMAIN appendTasks
  /\ appendTasks[i].pc \in {"send1", "send2"}
  /\ chStop
  /\ appendTasks' = [appendTasks EXCEPT ![i].pc = "returned",
                                        ![i].rawLog = NoLog,
                                        ![i].chCombined = "closed"]
  /\ Quiet
  /\ UNCHANGED << notAppendV, appendInputs, eventLoopSaw >>

\* case chCombined <- rawLog of the outer goroutine, received by the event loop
EventLoopReceive ==
  /\ appendTasks # << >>
  /\ appendTasks[2].pc \in {"send1", "send2"}
  /\ eventLoopSaw' = Append(eventLoopSaw, appendTasks[2].rawLog)
  /\ appendTasks' = [appendTasks EXCEPT
                       ![2].pc = IF appendTasks[2].pc = "send1" THEN "range1" ELSE "range2",
                       ![2].rawLog = NoLog]
  /\ Quiet
  /\ UNCHANGED << notAppendV, appendInputs >>

\* the sender of a channel sends its next log
SendLog(name) ==
  /\ appendInputs # << >>
  /\ ~appendInputs[name].isNil
  /\ ~appendInputs[name].closed
  /\ Len(appendInputs[name].sent) < MaxLogs
  /\ LET rawLog == [from |-> name, n |-> Len(appendInputs[name].sent) + 1]
     IN  appendInputs' = [appendInputs EXCEPT ![name].buf = Append(@, rawLog),
                                              ![name].sent = Append(@, rawLog)]
  /\ Quiet
  /\ UNCHANGED << notAppendV, appendTasks, eventLoopSaw >>

\* the sender of a channel closes it
CloseChannel(name) ==
  /\ appendInputs # << >>
  /\ ~appendInputs[name].isNil
  /\ ~appendInputs[name].closed
  /\ appendInputs' = [appendInputs EXCEPT ![name].closed = TRUE]
  /\ Quiet
  /\ UNCHANGED << notAppendV, appendTasks, eventLoopSaw >>

\* a started broadcaster whose resubscribe loop has just made the two calls of
\* appendLogChannel
InitAppend ==
  /\ state = "Started"
  /\ chStop = FALSE
  /\ wgDone = 1
  /\ awaitPc = "done"
  /\ loopPc = "eventLoop"
  /\ closePc = "idle"
  /\ highestSavedHead = Nil
  /\ backfillBlockNumber = [Valid |-> FALSE, Int64 |-> 0]
  /\ connected = TRUE
  /\ registrations = RegIds
  /\ highestNumConfirmations = highestOf(registrations)
  /\ trackedAddressesCount = Cardinality(addressesOf(registrations))
  /\ issued = registrations
  /\ subscription = createSubscription(addressesAndTopics(registrations))
  /\ newSubscription = NoopSubscription
  /\ logPool = { l \in LogIds :
                   isAddressRegistered(registrations, Chain[l].address) }
  /\ trackerHead = MaxHead - 1
  /\ lastSeenHeadNumber = trackerHead
  /\ chainHead = MaxHead
  /\ orphaned = {}
  /\ addSubscriber = NewMailbox(0)
  /\ rmSubscriber = NewMailbox(0)
  /\ newHeads = NewMailbox(1)
  /\ replayChannel = Nil
  /\ removedLogs = {}
  /\ chRawLogs = << >>
  /\ newSubLogs = << >>
  /\ needsResubscribe = FALSE
  /\ leaked = 0
  /\ handled = {}
  /\ consumed = {}
  /\ event = NoEvent
  /\ early = {}
  /\ dependents = 0
  /\ config = [BlockBackfillSkip |-> FALSE, BlockBackfillDepth |-> 1,
               EthFinalityDepth |-> 0]
  /\ \E priorNil, backfilledNil, liveNil \in BOOLEAN :
       LET inner == appendLogChannel(priorNil, backfilledNil)
           outer == appendLogChannel(inner.chCombined = "nil", liveNil)
       IN  /\ appendInputs = [ name \in InputNames |->
                                NewInput(CASE name = "prior" -> priorNil
                                           [] name = "backfilled" -> backfilledNil
                                           [] OTHER -> liveNil) ]
           /\ appendTasks = << inner, outer >>
  /\ eventLoopSaw = << >>
  /\ clock = [window |-> "before", ticks |-> 0, resubscribes |-> 0]
  /\ NoReader
  /\ listenerState = {}

AppendFairness ==
  /\ \A i \in 1..2 : WF_vars(AppendRange(i)) /\ WF_vars(AppendStop(i))

\* the two goroutines without a shutdown, the event loop receiving
NextAppend ==
  \/ \E i \in 1..2 : AppendRange(i)
  \/ EventLoopReceive
  \/ \E name \in InputNames : SendLog(name)
  \/ \E name \in InputNames : CloseChannel(name)

SpecAppend ==
  InitAppend /\ [][NextAppend]_vars /\ AppendFairness /\ WF_vars(EventLoopReceive)

\* the two goroutines and a shutdown; the event loop need not receive
NextAppendStop ==
  \/ \E i \in 1..2 : AppendRange(i)
  \/ \E i \in 1..2 : AppendStop(i)
  \/ EventLoopReceive
  \/ \E name \in InputNames : SendLog(name)
  \/ \E name \in InputNames : CloseChannel(name)
  \/ Close

SpecAppendStop == InitAppend /\ [][NextAppendStop]_vars /\ AppendFairness

\* ------------------------------------------------------ BackfillBlockNumber
\* BackfillBlockNumber() returns the null.Int64 by value: the caller's task
\* loads its two words, Int64 and Valid, one after the other and in either
\* order, with no synchronisation against the control task
BackfillBlockNumberLoad(field) ==
  /\ backfillReader.pc = "idle"
  /\ backfillReader' =
       IF field = "Int64"
         THEN [pc |-> "Int64", Int64 |-> backfillBlockNumber.Int64, Valid |-> FALSE]
         ELSE [pc |-> "Valid", Int64 |-> 0, Valid |-> backfillBlockNumber.Valid]
  /\ Quiet
  /\ UNCHANGED << lifeV, taskV, loopV, regV, boxV, logV, dependents, config,
                  appendV, chainHead, orphaned, trackerHead, clock, ormV,
                  newHeads, replayChannel, lastSeenHeadNumber, listenerState >>

\* the second load, and the return of the value read
BackfillBlockNumberReturn ==
  /\ backfillReader.pc # "idle"
  /\ event' = [kind |-> "BackfillBlockNumber",
               Int64 |-> IF backfillReader.pc = "Int64" THEN backfillReader.Int64
                         ELSE backfillBlockNumber.Int64,
               Valid |-> IF backfillReader.pc = "Valid" THEN backfillReader.Valid
                         ELSE backfillBlockNumber.Valid]
  /\ backfillReader' = [pc |-> "idle", Int64 |-> 0, Valid |-> FALSE]
  /\ UNCHANGED << lifeV, taskV, loopV, regV, boxV, logV, dependents, config,
                  appendV, chainHead, orphaned, trackerHead, clock, ormV,
                  newHeads, replayChannel, lastSeenHeadNumber, listenerState >>

\* the diagnostic read while the broadcaster starts, backfills and replays
NextOwnership ==
  \/ Start
  \/ \E r \in RegIds : Register(r)
  \/ AwaitAddSubscriber
  \/ AwaitDependents
  \/ LoopSubscribe
  \/ LoopBackfill
  \/ EvAddSubscriber
  \/ EvReplay
  \/ \E n \in ReplayBlocks : ReplayFromBlock(n)
  \/ \E field \in {"Int64", "Valid"} : BackfillBlockNumberLoad(field)
  \/ BackfillBlockNumberReturn

SpecOwnership == InitCore /\ [][NextOwnership]_vars

\* ------------------------------------------------- highestNumConfirmations
\* a started broadcaster in its event loop with any of the registrations
InitHighest ==
  /\ state = "Started"
  /\ chStop = FALSE
  /\ wgDone = 1
  /\ awaitPc = "done"
  /\ loopPc = "eventLoop"
  /\ closePc = "idle"
  /\ highestSavedHead = Nil
  /\ backfillBlockNumber = [Valid |-> FALSE, Int64 |-> 0]
  /\ connected = TRUE
  /\ registrations \in SUBSET ConfRegIds
  /\ highestNumConfirmations = highestOf(registrations)
  /\ trackedAddressesCount = Cardinality(addressesOf(registrations))
  /\ issued = registrations
  /\ subscription = createSubscription(addressesAndTopics(registrations))
  /\ newSubscription = NoopSubscription
  /\ logPool = { l \in LogIds :
                   isAddressRegistered(registrations, Chain[l].address) }
  /\ trackerHead = MaxHead - 1
  /\ lastSeenHeadNumber = trackerHead
  /\ chainHead = MaxHead
  /\ orphaned = {}
  /\ addSubscriber = NewMailbox(0)
  /\ rmSubscriber = NewMailbox(0)
  /\ newHeads = NewMailbox(1)
  /\ replayChannel = Nil
  /\ removedLogs = {}
  /\ chRawLogs = << >>
  /\ newSubLogs = << >>
  /\ needsResubscribe = FALSE
  /\ leaked = 0
  /\ handled = {}
  /\ consumed = {}
  /\ event = NoEvent
  /\ early = {}
  /\ dependents = 0
  /\ config \in Configs
  /\ NoAppend
  /\ NoReader
  /\ listenerState = {}
  /\ clock = [window |-> "before", ticks |-> 0, resubscribes |-> 0]

\* listeners come and go
NextHighest ==
  \/ \E r \in ConfRegIds : Register(r)
  \/ \E r \in ConfRegIds : Unsubscribe(r)
  \/ EvAddSubscriber
  \/ EvRmSubscriberSeen

SpecHighest == InitHighest /\ [][NextHighest]_vars

\* ---------------------------------------------------------------- listeners
\* WasAlreadyConsumed that looks for a row of any job
WasAlreadyConsumedByAnyJob(rows, c) ==
  \E x \in rows : /\ x.blockHash = Chain[c.log].blockHash
                  /\ x.logIndex = Chain[c.log].index

\* WasAlreadyConsumed: orm.WasBroadcastConsumed(BlockHash, Index, JobID)
WasAlreadyConsumed(rows, c) ==
  \E x \in rows : /\ x.blockHash = Chain[c.log].blockHash
                  /\ x.logIndex = Chain[c.log].index
                  /\ x.jobID = c.listener

\* a listener works on a broadcast it was handed: it asks WasAlreadyConsumed
\* and returns on an error or on true; else it processes the log, and when
\* that succeeds it keeps the result and calls MarkConsumed
ListenerHandleLog(c, ormErr, saveErr) ==
  /\ c \in handled
  /\ LET was == ~ormErr /\ WasAlreadyConsumed(consumed, c)
         done == ~ormErr /\ ~was /\ ~saveErr
     IN  /\ event' = [kind |-> "HandleLog", call |-> c, asked |-> TRUE,
                      answer |-> was, err |-> ormErr, processed |-> done,
                      marks |-> IF done THEN 1 ELSE 0]
         /\ listenerState' = IF done THEN listenerState \cup {c} ELSE listenerState
         /\ consumed' = IF done THEN consumed \cup { ConsumedRow(c.listener, c.log) }
                        ELSE consumed
  /\ UNCHANGED << lifeV, taskV, loopV, regV, boxV, logV, dependents, config,
                  appendV, backfillReader, chainHead, orphaned, trackerHead,
                  clock, handled, newHeads, replayChannel, lastSeenHeadNumber >>

\* a started broadcaster in its event loop, the pool filled, heads to come
InitListener ==
  /\ state = "Started"
  /\ chStop = FALSE
  /\ wgDone = 1
  /\ awaitPc = "done"
  /\ loopPc = "eventLoop"
  /\ closePc = "idle"
  /\ highestSavedHead = Nil
  /\ backfillBlockNumber = [Valid |-> FALSE, Int64 |-> 0]
  /\ connected = TRUE
  /\ registrations \in (SUBSET ConfRegIds) \ {{}}
  /\ highestNumConfirmations = highestOf(registrations)
  /\ trackedAddressesCount = Cardinality(addressesOf(registrations))
  /\ issued = registrations
  /\ subscription = createSubscription(addressesAndTopics(registrations))
  /\ newSubscription = NoopSubscription
  /\ logPool = { l \in LogIds :
                   isAddressRegistered(registrations, Chain[l].address) }
  /\ trackerHead = MaxHead - 2
  /\ lastSeenHeadNumber = trackerHead
  /\ chainHead = MaxHead
  /\ orphaned = {}
  /\ addSubscriber = NewMailbox(0)
  /\ rmSubscriber = NewMailbox(0)
  /\ newHeads = NewMailbox(1)
  /\ replayChannel = Nil
  /\ removedLogs = {}
  /\ chRawLogs = << >>
  /\ newSubLogs = << >>
  /\ needsResubscribe = FALSE
  /\ leaked = 0
  /\ handled = {}
  /\ consumed = {}
  /\ event = NoEvent
  /\ early = {}
  /\ dependents = 0
  /\ config \in Configs
  /\ NoAppend
  /\ NoReader
  /\ listenerState = {}
  /\ clock = [window |-> "before", ticks |-> 0, resubscribes |-> 0]

\* dispatch passes and the listeners working on what they were handed
NextListener ==
  \/ OnNewLongestChain
  \/ EvNewHeads
  \/ EvOnNewHeads
  \/ \E c \in handled, ormErr, saveErr \in BOOLEAN : ListenerHandleLog(c, ormErr, saveErr)

SpecListener == InitListener /\ [][NextListener]_vars

\* ----------------------------------------------------------------- IsLaterThan
\* types.Log as far as the order looks at it
OrderedLogs ==
  [BlockNumber : 1..MaxIndex, TxIndex : 1..MaxIndex, Index : 1..MaxIndex]

\* IsLaterThan that compares the block numbers and the log indexes only
IsLaterThanByIndex(incoming, existing) ==
  \/ incoming.BlockNumber > existing.BlockNumber
  \/ /\ incoming.BlockNumber = existing.BlockNumber
     /\ incoming.Index > existing.Index

\* IsLaterThan(incoming, existing): by block number, then by the index of the
\* transaction, then by the index of the log
IsLaterThan(incoming, existing) ==
  \/ incoming.BlockNumber > existing.BlockNumber
  \/ /\ incoming.BlockNumber = existing.BlockNumber
     /\ incoming.TxIndex > existing.TxIndex
  \/ /\ incoming.BlockNumber = existing.BlockNumber
     /\ incoming.TxIndex = existing.TxIndex
     /\ incoming.Index > existing.Index

\* one pair of logs is compared, in both directions
CompareLogs ==
  /\ event = NoEvent
  /\ \E incoming, existing \in OrderedLogs :
       event' = [kind |-> "IsLaterThan", incoming |-> incoming,
                 existing |-> existing,
                 result |-> IsLaterThan(incoming, existing),
                 converse |-> IsLaterThan(existing, incoming)]
  /\ UNCHANGED << lifeV, taskV, loopV, regV, boxV, logV, envV, ormV, newHeads,
                  replayChannel, lastSeenHeadNumber >>

SpecOrder == InitCore /\ [][CompareLogs]_vars

\* --------------------------------------------------------- what a case does
\* a started broadcaster in its event loop at the start of the chain
InitFrame ==
  /\ state = "Started"
  /\ chStop = FALSE
  /\ wgDone = 1
  /\ awaitPc = "done"
  /\ loopPc = "eventLoop"
  /\ closePc = "idle"
  /\ highestSavedHead = Nil
  /\ backfillBlockNumber = [Valid |-> FALSE, Int64 |-> 0]
  /\ connected = TRUE
  /\ registrations = {"R1"}
  /\ highestNumConfirmations = highestOf(registrations)
  /\ trackedAddressesCount = Cardinality(addressesOf(registrations))
  /\ issued = registrations
  /\ subscription = createSubscription(addressesAndTopics(registrations))
  /\ newSubscription = NoopSubscription
  /\ logPool = {}
  /\ trackerHead = 0
  /\ lastSeenHeadNumber = trackerHead
  /\ chainHead = 0
  /\ orphaned = {}
  /\ addSubscriber = NewMailbox(0)
  /\ rmSubscriber = NewMailbox(0)
  /\ newHeads = NewMailbox(1)
  /\ replayChannel = Nil
  /\ removedLogs = {}
  /\ chRawLogs = << >>
  /\ newSubLogs = << >>
  /\ needsResubscribe = FALSE
  /\ leaked = 0
  /\ handled = {}
  /\ consumed = {}
  /\ event = NoEvent
  /\ early = {}
  /\ dependents = 0
  /\ config = [BlockBackfillSkip |-> FALSE, BlockBackfillDepth |-> 1,
               EthFinalityDepth |-> 0]
  /\ NoAppend
  /\ NoReader
  /\ listenerState = {}
  /\ clock = [window |-> "before", ticks |-> 0, resubscribes |-> 0]

\* every case of the event loop but the error and the stop
NextFrame ==
  \/ Register("R2")
  \/ Unsubscribe("R2")
  \/ ReplayFromBlock(0)
  \/ OnNewLongestChain
  \/ MineBlock
  \/ LoopSubscribe
  \/ LoopBackfill
  \/ EvRawLog
  \/ EvNewHeads
  \/ EvOnNewHeads
  \/ EvAddSubscriber
  \/ EvRmSubscriber
  \/ EvReplay
  \/ EvDebounce

SpecFrame == InitFrame /\ [][NextFrame]_vars

\* C39: HandleLog is called only in a step that handles a new head; no other
\* step calls it or takes a log out of the pool, save a raw log that withdraws
\* the log it names; a step that changes the registrations leaves the pool as
\* it was, and a step that pools or withdraws a raw log leaves the
\* registrations as they were
C39_DispatchOnlyOnHeads ==
  [][ /\ handled' # handled => event'.kind = "pass"
      /\ event'.kind # "pass" =>
            /\ handled' = handled
            /\ logPool \ logPool' \subseteq removedLogs' \ removedLogs
      /\ registrations' # registrations => logPool' = logPool
      /\ Len(chRawLogs') < Len(chRawLogs) => registrations' = registrations
    ]_vars

\* a log of a contract whose listener asks for no confirmation is in the pool,
\* its raw log handled, and no listener has been called
C39_Witness ==
  /\ "R2" \in registrations
  /\ "LB" \in logPool
  /\ chRawLogs = << >>
  /\ handled = {}
  /\ loopPc = "eventLoop"

\* ------------------------------------------------- heads outside the event loop
\* a broadcaster made with a saved head, on a chain that is past the blocks of
\* the logs: the first backfill fetches them, the later ones fetch none
InitHeads ==
  /\ Constructed(MaxHead - 2)
  /\ dependents = 0
  /\ config = [BlockBackfillSkip |-> FALSE, BlockBackfillDepth |-> 1,
               EthFinalityDepth |-> 0]
  /\ NoAppend
  /\ NoReader
  /\ listenerState = {}
  /\ chainHead = MaxHead - 1
  /\ trackerHead = MaxHead - 3
  /\ orphaned = {}
  /\ consumed = {}
  /\ clock = [window |-> "before", ticks |-> 0, resubscribes |-> 0]

\* heads and replay requests that reach a broadcaster in any of its phases
NextHeads ==
  \/ Start
  \/ Register("R1")
  \/ AwaitAddSubscriber
  \/ AwaitDependents
  \/ LoopSubscribe
  \/ LoopBackfill
  \/ EvRawLog
  \/ EvNewHeads
  \/ EvOnNewHeads
  \/ EvSubErr
  \/ EvAddSubscriber
  \/ EvReplay
  \/ EvDebounce
  \/ ReplayFromBlock(MaxHead - 1)
  \/ MineBlock
  \/ OnNewLongestChain

\* no task stops by itself; Go's select takes at random one of the cases that
\* are ready, so a case that is ready each time the select is reached is taken
SpecHeads ==
  /\ InitHeads
  /\ [][NextHeads]_vars
  /\ WF_vars(AwaitDependents)
  /\ WF_vars(LoopSubscribe)
  /\ WF_vars(LoopBackfill)
  /\ WF_vars(EvOnNewHeads)
  /\ SF_vars(EvNewHeads)

\* the control task is awaiting the initial subscribers or resubscribing
outsideEventLoop ==
  /\ state = "Started"
  /\ \/ awaitPc = "running"
     \/ loopPc \in {"subscribe", "backfill"}

\* C40: a head that OnNewLongestChain delivered while the broadcaster was
\* awaiting its initial subscribers or resubscribing is later handled by a
\* dispatch pass, or a newer head is
C40_HeadsNotLost ==
  \A h \in (MaxHead - 2)..MaxHead :
    (outsideEventLoop /\ newHeads.queue = << h >>)
      ~> (event.kind = "pass" /\ event.head >= h /\ lastSeenHeadNumber >= h)

\* the broadcaster is resubscribing after an earlier pass and holds a newer
\* head that was delivered meanwhile
C40_Witness ==
  /\ outsideEventLoop
  /\ loopPc = "backfill"
  /\ subscription.live
  /\ newHeads.notify
  /\ newHeads.queue = << trackerHead >>
  /\ lastSeenHeadNumber > 0
  /\ lastSeenHeadNumber < trackerHead

\* ------------------------------------------------------------ topic filters
\* the raw logs put to the filters: up to MaxTopics topics each
TopicValues == {"a", "b", "c", "d"}

TopicLogs ==
  { [address |-> ad, topics |-> << t0 >> \o vs] :
      ad \in {"C1", "C2"}, t0 \in {"T1", "T2"},
      vs \in UNION { [1..k -> TopicValues] : k \in 0..(MaxTopics - 1) } }

\* the options put to the filters: contract C1, event type T1 with the filters
\* [[a,b], [], [c]], with none, with [[], [a]], and two event types
TopicOpts ==
  { [Contract |-> "C1", NumConfirmations |-> 0, LogsWithTopics |-> m] :
      m \in { [t \in {"T1"} |-> << {"a", "b"}, {}, {"c"} >>],
              [t \in {"T1"} |-> << >>],
              [t \in {"T1"} |-> << {}, {"a"} >>],
              [t \in {"T1", "T2"} |-> IF t = "T1" THEN << {"a"} >> ELSE << >>] } }

\* one log is put to the filters of one listener
MatchLog ==
  /\ event = NoEvent
  /\ \E log \in TopicLogs, opts \in TopicOpts :
       event' = [kind |-> "match", log |-> log, opts |-> opts,
                 matches |-> LogMatches(opts, log)]
  /\ UNCHANGED << lifeV, taskV, loopV, regV, boxV, logV, envV, ormV, newHeads,
                  replayChannel, lastSeenHeadNumber >>

SpecFilter == InitCore /\ [][MatchLog]_vars

\* -------------------------------------------------------------- properties
\* the HandleLog calls of the step that led to event e
Calls(e) == IF e.kind = "pass" THEN e.calls ELSE << >>

RowOf(c) == ConsumedRow(c.listener, c.log)

NumConfirmationsOf(listener) ==
  Regs[CHOOSE r \in RegIds : Regs[r].listener = listener].numConfirmations

NoDuplicates(seq) ==
  \A i, j \in DOMAIN seq : i # j => seq[i] # seq[j]

\* C1: once MarkConsumed(L, job) is persisted, no dispatch pass calls
\* HandleLog(L) on that listener again, whatever delivers L again: a later
\* head, a resubscribe, a backfill, a replay or a restart on the same database.
C1_AtMostOnceOnceConsumed ==
  [][ \A c \in Range(Calls(event')) : RowOf(c) \notin consumed ]_vars

\* a pass after a restart offers a log that an earlier run marked consumed to
\* its confirmed listener, and makes no call for it
C1_Witness ==
  /\ event.kind = "pass"
  /\ ~ event.err
  /\ \E l \in Range(event.logs), r \in registrations :
       /\ Matches(r, l)
       /\ Confirmed(r, l, event.head)
       /\ ConsumedRow(Regs[r].listener, l) \in consumed
       /\ [listener |-> Regs[r].listener, log |-> l] \notin handled

C3_ConfirmationGating ==
  \A c \in Range(Calls(event)) :
    event.head - Chain[c.log].blockNumber + 1 >= NumConfirmationsOf(c.listener)

\* a pass offers a log to a matching listener that lacks confirmations, and
\* makes no call
C3_Witness ==
  /\ event.kind = "pass"
  /\ ~ event.err
  /\ event.calls = << >>
  /\ \E l \in Range(event.logs), r \in registrations :
       /\ Matches(r, l)
       /\ Regs[r].numConfirmations > 0
       /\ ~ Confirmed(r, l, event.head)

\* C4: a removed=true copy of a pooled log deletes it from the pool and is
\* not stored, and no pass calls HandleLog for it unless a removed=false copy
\* arrives afterwards.
C4_RemovedLogs ==
  /\ removedLogs \cap logPool = {}
  /\ \A c \in Range(Calls(event)) : c.log \notin removedLogs

\* a pass runs after the removal of a pooled log, with a head that confirms
\* it for a registered listener
C4_Witness ==
  /\ event.kind = "pass"
  /\ \E l \in removedLogs, r \in registrations :
       /\ Matches(r, l)
       /\ Confirmed(r, l, event.head)
       /\ ConsumedRow(Regs[r].listener, l) \notin consumed

\* C5: without BlockBackfillSkip the first backfill of a broadcaster created
\* with a saved head starts at max(0, saved - highest confirmations -
\* BlockBackfillDepth), and the saved head is cleared for good.
C5_BackfillStart ==
  /\ [][ ( /\ event'.kind = "backfillLogs"
           /\ highestSavedHead # Nil
           /\ ~ config.BlockBackfillSkip )
         => /\ event'.first
            /\ event'.Valid
            /\ event'.Int64 = Max(0, highestSavedHead - highestOf(registrations)
                                       - config.BlockBackfillDepth)
            /\ highestSavedHead' = Nil ]_vars
  /\ [](subscription.live => highestSavedHead = Nil)

\* the first backfill starts above block 0 at a block computed from the
\* saved head and the confirmations of a registered listener
C5_Witness ==
  /\ event.kind = "backfillLogs"
  /\ event.first
  /\ event.saved # Nil
  /\ ~ config.BlockBackfillSkip
  /\ highestNumConfirmations > 0
  /\ event.Int64 > 0

\* C6: with BlockBackfillSkip the first resubscribe drops the saved head and
\* backfillLogs gets no start-block override.
C6_BackfillSkip ==
  (config.BlockBackfillSkip /\ event.kind = "backfillLogs")
    => (~ event.Valid /\ highestSavedHead = Nil /\ ~ backfillBlockNumber.Valid)

\* the first backfill of a node that was created with a saved head and
\* BlockBackfillSkip
C6_Witness ==
  /\ event.kind = "backfillLogs"
  /\ event.first
  /\ event.saved # Nil
  /\ config.BlockBackfillSkip

\* C7: while a declared dependent has not signalled readiness, no live
\* subscription is open, no backfill was started and IsConnected() is false.
C7_NoSubscriptionBeforeReady ==
  dependents > 0 =>
    /\ loopPc = "idle"
    /\ ~ connected
    /\ ~ subscription.live
    /\ ~ newSubscription.live
    /\ leaked = 0
    /\ event.kind \notin {"createSubscription", "backfillLogs"}

\* the await task has registered a listener while a dependent is not ready
C7_Witness ==
  /\ state = "Started"
  /\ awaitPc = "running"
  /\ dependents > 0
  /\ registrations # {}

\* C8: every registration delivered before the last dependent signalled
\* readiness is in the registrations when the first filter and the first
\* backfill start are computed.
C8_InitialRegistrations ==
  [][ (event'.kind = "createSubscription" /\ event'.first)
        => \A r \in early :
             /\ r \in registrations
             /\ Regs[r].contract \in event'.addresses
             /\ Regs[r].topics \subseteq event'.topics
             /\ highestNumConfirmations >= Regs[r].numConfirmations ]_vars

\* C9: Close returns: it is not left in wgDone.Wait() once the await task
\* has returned and the resubscribe loop has returned or was never started.
C9_CloseTerminates ==
  (closePc = "waiting" /\ awaitPc = "done" /\ loopPc \in {"idle", "done"})
    => wgDone = 0

\* C10: Start fails unless the broadcaster is unstarted, Close fails unless
\* it is started; a failing call starts no task and leaves chStop alone.
C10_StartCloseMisuse ==
  [][ /\ event'.kind = "Start" =>
           /\ event'.err <=> state # "Unstarted"
           /\ event'.err => UNCHANGED << state, wgDone, awaitPc, loopPc, chStop >>
      /\ event'.kind = "Close" =>
           /\ event'.err <=> state # "Started"
           /\ event'.err => UNCHANGED << state, wgDone, closePc, chStop >> ]_vars

\* a second Close has returned an error
C10_Witness ==
  /\ event.kind = "Close"
  /\ event.err
  /\ state = "Stopped"
  /\ chStop

\* C11: any number of Register and unsubscribe calls that all arrive within
\* one second while the event loop runs produce at most one resubscribe.
C11_DebounceWithinOneSecond == clock.resubscribes <= 1

\* C11 (amended): the registrations and unsubscribes that the event loop
\* handles between two consecutive debounce ticks produce at most one
\* resubscribe: the event loop leaves for a resubscribe only on a tick that
\* finds needsResubscribe set, never in the step that handles a call and
\* never before the first tick after the calls, and once it is back with
\* needsResubscribe unset the filter of the subscription already covers
\* every call handled so far.
C11_DebouncePerTick ==
  /\ []((clock.window = "open" /\ clock.ticks = 0) => clock.resubscribes = 0)
  /\ [][ (loopPc = "eventLoop" /\ loopPc' = "subscribe")
           => /\ needsResubscribe
              /\ UNCHANGED << registrations, addSubscriber, rmSubscriber >> ]_vars
  /\ []((loopPc = "eventLoop" /\ ~ needsResubscribe)
          => /\ subscription.addresses = addressesOf(registrations)
             /\ subscription.topics = topicsOf(registrations))

C11_Witness ==
  /\ clock.window = "closed" /\ clock.ticks = 0 /\ clock.resubscribes = 1
  /\ Cardinality(registrations) = 2 /\ subscription.live
  /\ subscription.addresses = addressesOf(registrations)

\* C12: a registration delivered by Register to a started broadcaster that is
\* not shut down is eventually registered, and eventually the live upstream
\* subscription has the union of the addresses and topics of all registered
\* listeners, that registration included, as its filter.
C12_FilterCatchesUp ==
  \A r \in RegIds :
    (state = "Started" /\ r \in Range(addSubscriber.queue))
      ~> /\ r \in registrations
         /\ subscription.live /\ subscription.alive
         /\ subscription.addresses = addressesOf(registrations)
         /\ subscription.topics = topicsOf(registrations)
         /\ Regs[r].contract \in subscription.addresses
         /\ Regs[r].topics \subseteq subscription.topics

C12_Witness ==
  /\ event.kind = "createSubscription" /\ ~ event.first
  /\ event.addresses = { Regs[r].contract : r \in RegIds }
  /\ registrations = RegIds

\* C13: a replay request n picked up by the event loop makes it return for
\* one resubscribe with the override set to n; the override stays until the
\* backfill of that resubscribe is started exactly at n, is cleared by it, and
\* a resubscribe that finds no override (and no saved head) starts its
\* backfill without one.
C13_Replay ==
  /\ [][ (loopPc = "eventLoop" /\ replayChannel # Nil /\ replayChannel' = Nil
            /\ state' = state)
           => /\ loopPc' = "subscribe"
              /\ backfillBlockNumber' = [Valid |-> TRUE, Int64 |-> replayChannel] ]_vars
  /\ [][ (backfillBlockNumber.Valid /\ loopPc \in {"subscribe", "backfill"}
            /\ loopPc' \in {"subscribe", "backfill"})
           => backfillBlockNumber' = backfillBlockNumber ]_vars
  /\ [][ event'.kind = "backfillLogs"
           => /\ backfillBlockNumber.Valid
                   => (event'.Valid /\ event'.Int64 = backfillBlockNumber.Int64)
              /\ (~ backfillBlockNumber.Valid /\ highestSavedHead = Nil)
                   => ~ event'.Valid
              /\ ~ backfillBlockNumber'.Valid ]_vars
  /\ [](loopPc = "eventLoop" => ~ backfillBlockNumber.Valid)

C13_Witness ==
  /\ event.kind = "backfillLogs" /\ ~ event.first /\ event.Valid /\ event.Int64 = 2
  /\ chainHead > 2 /\ ~ backfillBlockNumber.Valid

\* C14: ReplayFromBlock never blocks, and a request made while another one
\* is pending replaces it.
C14_ReplayOverwrites ==
  /\ [](\A n \in ReplayBlocks : ENABLED ReplayFromBlockCall(n))
  /\ [][ event'.kind = "ReplayFromBlock" => replayChannel' = event'.number ]_vars

\* C14 (amended): ReplayFromBlock never blocks; a request made while another
\* one is pending is dropped, the pending request stays until the event loop
\* picks it up, and the replay backfill starts at the pending request.
C14_ReplayKeepsPending ==
  /\ [](\A n \in ReplayBlocks : ENABLED ReplayFromBlockCall(n))
  /\ [][ event'.kind = "ReplayFromBlock"
           => replayChannel' = IF replayChannel = Nil THEN event'.number
                               ELSE replayChannel ]_vars
  /\ [][ replayChannel # Nil => replayChannel' \in {replayChannel, Nil} ]_vars
  /\ [][ (replayChannel # Nil /\ replayChannel' = Nil)
           => backfillBlockNumber' = [Valid |-> TRUE, Int64 |-> replayChannel] ]_vars

C14_Witness ==
  /\ event.kind = "ReplayFromBlock" /\ replayChannel # Nil
  /\ replayChannel # event.number /\ loopPc = "eventLoop"

\* C15: latest-head collapse. The mailbox of heads holds at most the head
\* delivered last and OnNewLongestChain can always deliver; a run of
\* onNewHeads that finds a head makes exactly one dispatch pass, for the head
\* delivered last, which is newer than that of every earlier pass, stores its
\* number in lastSeenHeadNumber and leaves the mailbox empty; a run that
\* finds the mailbox empty makes no pass and changes neither the pool nor
\* lastSeenHeadNumber.
C15_LatestHeadCollapse ==
  /\ [](Len(newHeads.queue) <= 1)
  /\ [](trackerHead < chainHead => ENABLED OnNewLongestChain)
  /\ [][ (loopPc = "onNewHeads" /\ loopPc' = "eventLoop" /\ newHeads.queue # << >>)
           => /\ event'.kind = "pass"
              /\ event'.head = trackerHead
              /\ event'.head > lastSeenHeadNumber
              /\ lastSeenHeadNumber' = trackerHead
              /\ newHeads'.queue = << >> ]_vars
  /\ [][ (loopPc = "onNewHeads" /\ loopPc' = "eventLoop" /\ newHeads.queue = << >>)
           => /\ event'.kind # "pass"
              /\ UNCHANGED << logPool, lastSeenHeadNumber, handled >> ]_vars
  /\ [][ event'.kind = "pass" => loopPc = "onNewHeads" ]_vars

\* heads 1 and 2 were both delivered before onNewHeads ran: the one pass is
\* for head 2 and calls a listener, and the notification of head 2 is still
\* pending on an empty mailbox
C15_Witness ==
  /\ event.kind = "pass" /\ event.head = 2 /\ event.calls # << >>
  /\ lastSeenHeadNumber = 2
  /\ newHeads.notify /\ newHeads.queue = << >>

\* C16 as claimed: IsConnected() is false during the whole Resubscribing
\* state, whatever made the event loop return.
C16_DisconnectedWhileResubscribing ==
  loopPc \in {"subscribe", "backfill"} => ~ connected

\* C16 (amended): connected is true throughout the event loop; when the event
\* loop returns to resubscribe, connected is false exactly when the
\* subscription failed and is left true after a replay request or a debounce
\* tick; the terminal return of the event loop sets it to false; only a
\* return of the event loop unsets it, and it becomes true again only when
\* the new live subscription is open and its backfill has been started.
C16_ConnectedFlag ==
  /\ [](loopPc \in {"eventLoop", "onNewHeads"} => connected)
  /\ [][ (loopPc = "eventLoop" /\ loopPc' = "subscribe")
           => connected' = subscription'.alive ]_vars
  /\ [][ (loopPc = "eventLoop" /\ loopPc' = "done") => ~ connected' ]_vars
  /\ [][ (connected /\ ~ connected') => loopPc = "eventLoop" ]_vars
  /\ [][ (~ connected /\ connected')
           => /\ loopPc = "backfill" /\ loopPc' = "eventLoop"
              /\ event'.kind = "backfillLogs"
              /\ subscription'.live /\ subscription'.alive ]_vars

\* a resubscribe after a replay request: the new subscription is open, the
\* backfill has not started, and IsConnected() is still true
C16_Witness ==
  /\ loopPc = "backfill" /\ connected
  /\ backfillBlockNumber.Valid
  /\ subscription.live /\ subscription.alive /\ newSubscription.live

\* C17: a dispatch pass in which FindConsumedLogs fails calls HandleLog on
\* no listener for any log, whatever highestNumConfirmations is.
C17_OrmFailureSuppressesDispatch ==
  [][ (event'.kind = "pass" /\ event'.err)
        => /\ event'.queried
           /\ event'.calls = << >>
           /\ handled' = handled ]_vars

\* a failed pass over logs that a listener was due to receive at this head
C17_Witness ==
  /\ event.kind = "pass" /\ event.err
  /\ highestNumConfirmations > 0
  /\ sendLogs(registrations, event.logs, event.head, {}) # << >>

\* C18: a dispatch pass in which FindConsumedLogs fails leaves every log of
\* the pool in the pool, so that the next head offers it again, both with
\* highestNumConfirmations > 0 and with highestNumConfirmations = 0.
C18_OrmFailureLosesNoLogs ==
  [][ (event'.kind = "pass" /\ event'.err) => logPool \subseteq logPool' ]_vars

\* C19: a Register call with an empty LogsWithTopics is rejected as fatal: it
\* delivers nothing to the addSubscriber mailbox, hands out no unsubscribe
\* function and changes no registration; such a registration is never in a
\* mailbox nor in registrations.
C19_RegisterRejectsEmptyTopics ==
  /\ [](\A r \in AllRegIds : Regs[r].topics = {} => ENABLED Register(r))
  /\ [][ event'.kind = "Fatal"
           => /\ Regs[event'.registration].topics = {}
              /\ UNCHANGED << addSubscriber, rmSubscriber, issued, registrations,
                              highestNumConfirmations, needsResubscribe >> ]_vars
  /\ [](\A r \in AllRegIds :
          Regs[r].topics = {}
            => /\ r \notin registrations
               /\ r \notin issued
               /\ r \notin Range(addSubscriber.queue)
               /\ r \notin Range(rmSubscriber.queue))

\* the misuse on a started broadcaster that holds a valid registration and
\* has another one pending in the mailbox
C19_Witness ==
  /\ event.kind = "Fatal" /\ Regs[event.registration].topics = {}
  /\ state = "Started"
  /\ registrations # {}
  /\ addSubscriber.queue # << >>

\* C20: add and remove requests are applied in arrival order: once a listener
\* has called Register and then the unsubscribe function it returned, and
\* both mailboxes are drained, its registration is not in registrations.
C20_AddRemoveInOrder ==
  \A r \in RegIds :
    (r \notin issued /\ addSubscriber.queue = << >> /\ rmSubscriber.queue = << >>)
      => r \notin registrations

\* has the raw log a topic i (counted from 0), and is it one of vs
TopicIn(log, i, vs) == i + 1 <= Len(log.topics) /\ log.topics[i + 1] \in vs

\* C21: a log matches a listener iff its address is the listener's contract,
\* topics[0] is one of the listener's event types, and at every position
\* i > 0 the filter is absent or empty or holds topics[i]; for the filters
\* [[a,b], [], [c]] of T1 that is topics[1] in {a,b} and topics[3] = c,
\* whatever topics[2] is.
C21_FilterSemantics ==
  event.kind = "match" =>
    LET log == event.log
        opts == event.opts
        known == TopicIn(log, 0, DOMAIN opts.LogsWithTopics)
        F == IF known THEN opts.LogsWithTopics[log.topics[1]] ELSE << >>
    IN  /\ event.matches <=>
             /\ log.address = opts.Contract
             /\ known
             /\ \A i \in 1..(MaxTopics - 1) :
                  i > Len(F) \/ F[i] = {} \/ TopicIn(log, i, F[i])
        /\ (opts.LogsWithTopics = [t \in {"T1"} |-> << {"a", "b"}, {}, {"c"} >>])
             => (event.matches <=>
                   /\ log.address = "C1"
                   /\ TopicIn(log, 0, {"T1"})
                   /\ TopicIn(log, 1, {"a", "b"})
                   /\ TopicIn(log, 3, {"c"}))

\* a log that passes [[a,b], [], [c]] with a value at the unconstrained
\* position 2
C21_Witness ==
  /\ event.kind = "match" /\ event.matches
  /\ event.opts.LogsWithTopics = [t \in {"T1"} |-> << {"a", "b"}, {}, {"c"} >>]
  /\ event.log.topics = << "T1", "b", "d", "c" >>

\* the (block_number, tx_index, log_index) of a log
OrderKey(l) == << Chain[l].blockNumber, Chain[l].txIndex, Chain[l].index >>

\* lexicographic <= on triples
KeyLeq(a, b) ==
  \/ a[1] < b[1]
  \/ a[1] = b[1] /\ a[2] < b[2]
  \/ a[1] = b[1] /\ a[2] = b[2] /\ a[3] <= b[3]

C23_DuplicatesCollapse ==
  /\ [][ (event'.kind = "rawLog" /\ ~ event'.removed /\ event'.pooled)
           => /\ logPool' = logPool
              /\ Cardinality({ p \in logPool' :
                     /\ Chain[p].blockHash = Chain[event'.log].blockHash
                     /\ Chain[p].index = Chain[event'.log].index }) = 1 ]_vars
  /\ [](event.kind = "pass"
          => /\ \A i, j \in DOMAIN event.logs :
                  event.logs[i] = event.logs[j] => i = j
             /\ \A i, j \in DOMAIN event.calls :
                  event.calls[i] = event.calls[j] => i = j)

\* the second copy of a log has just reached the event loop before any pass
\* dispatched the log: the pool holds it once
C23_Witness ==
  /\ event.kind = "rawLog" /\ ~ event.removed /\ event.pooled
  /\ event.log \in logPool
  /\ \A c \in handled : c.log # event.log
  /\ \E r \in registrations : Matches(r, event.log)

\* C25: a raw log with removed = false is added to the pool iff a listener
\* has its address registered when the event loop takes the log in, and
\* otherwise leaves the pool unchanged; a raw log with removed = true is
\* erased from the pool whether or not its address is registered.
C25_LogAdmission ==
  [][ event'.kind = "rawLog"
        => LET l == event'.log
               registered == \E r \in registrations : Regs[r].contract = Chain[l].address
           IN  /\ (~ event'.removed /\ registered) => logPool' = logPool \cup {l}
               /\ (~ event'.removed /\ ~ registered) => logPool' = logPool
               /\ event'.removed => logPool' = logPool \ {l} ]_vars

\* a log of a contract whose only listener has unsubscribed reaches the event
\* loop of a broadcaster that still has another listener: it is not pooled
C25_Witness ==
  /\ event.kind = "rawLog" /\ ~ event.removed
  /\ registrations # {}
  /\ \A r \in registrations : Regs[r].contract # Chain[event.log].address
  /\ event.log \notin logPool

\* C24 as claimed: at no time are two live upstream subscriptions open.
C24_OneSubscriptionAtATime ==
  ~ (/\ subscription.live /\ subscription.alive
     /\ newSubscription.live /\ newSubscription.alive)

\* C24 (amended): in every resubscribe cycle the new subscription is opened
\* while the prior one is left as it is; the prior one is given up only when
\* the backfill has been started and the new one takes its place; in the
\* event loop one subscription is open.
C24_ResubscribeOrder ==
  /\ [][ event'.kind = "createSubscription"
           => /\ loopPc = "subscribe" /\ loopPc' = "backfill"
              /\ newSubscription'.live /\ newSubscription'.alive
              /\ subscription' = subscription ]_vars
  /\ [][ (loopPc = "backfill" /\ loopPc' = "eventLoop")
           => /\ subscription' = newSubscription
              /\ newSubscription' = NoopSubscription ]_vars
  /\ [](loopPc \in {"eventLoop", "onNewHeads"} => ~ newSubscription.live)
  /\ [](loopPc = "backfill" => newSubscription.live)

\* a resubscribe after a debounce tick or a replay request: the new
\* subscription is open and the prior one is still open
C24_Witness ==
  /\ loopPc = "backfill"
  /\ subscription.live /\ subscription.alive
  /\ newSubscription.live /\ newSubscription.alive
  /\ ~ chStop

\* C26: a dispatch pass at head H with highestNumConfirmations > 0 in which
\* FindConsumedLogs does not fail leaves in the pool exactly the logs it held
\* with block_number >= max(H - kept_depth, 0), where kept_depth is the
\* larger of EthFinalityDepth and highestNumConfirmations; a log that was
\* dispatched stays in the pool unless it is that old.
C26_RetentionDepth ==
  [][ (event'.kind = "pass" /\ ~ event'.err /\ highestNumConfirmations > 0)
        => LET H == event'.head
               depth == IF config.EthFinalityDepth > highestNumConfirmations
                          THEN config.EthFinalityDepth
                          ELSE highestNumConfirmations
               threshold == IF H - depth > 0 THEN H - depth ELSE 0
           IN  /\ \A l \in logPool' : Chain[l].blockNumber >= threshold
               /\ \A l \in logPool :
                    Chain[l].blockNumber >= threshold => l \in logPool'
               /\ logPool' \subseteq logPool ]_vars

\* a pass that dispatched logs of block 2, which stay in the pool, and
\* evicted a log of block 1
C26_Witness ==
  /\ event.kind = "pass" /\ ~ event.err
  /\ highestNumConfirmations > 0
  /\ \E i \in DOMAIN event.calls :
       event.calls[i].log \in logPool /\ Chain[event.calls[i].log].blockNumber = 2
  /\ \E i \in DOMAIN event.logs :
       event.logs[i] \notin logPool /\ Chain[event.logs[i]].blockNumber = 1

\* C27: when the live subscription reports an error the event loop returns to
\* resubscribe and IsConnected() becomes false; from there, with an upstream
\* that accepts a subscription in the end and no shutdown, the broadcaster
\* opens a new live subscription, starts a backfill, sets connected and is in
\* the event loop again.
C27_Recovery ==
  /\ [][ (loopPc = "eventLoop" /\ subscription.alive /\ ~ subscription'.alive)
           => (loopPc' = "subscribe" /\ ~ connected') ]_vars
  /\ (loopPc = "subscribe" /\ subscription.live /\ ~ subscription.alive)
       ~> (/\ loopPc = "eventLoop" /\ connected
           /\ subscription.live /\ subscription.alive
           /\ event.kind = "backfillLogs")

\* back in the event loop after an error: the backfill of a later
\* subscription has just been started
C27_Witness ==
  /\ event.kind = "backfillLogs" /\ ~ event.first
  /\ loopPc = "eventLoop" /\ connected
  /\ subscription.live /\ subscription.alive
  /\ registrations # {}


\* C28: an item of the wrong type in the add-subscriber, remove-subscriber or
\* new-heads mailbox is logged and skipped: the step that drains it leaves the
\* event loop running and the pool as it was, an item that is no registration
\* never enters the registrations, the registrations change by exactly the
\* well-typed items of the drained mailbox (by nothing, and the last seen head
\* stays, for the new-heads mailbox), and every drain of a mailbox that holds
\* such an item logs it.
C28_MalformedSkipped ==
  [][ /\ (/\ addSubscriber.notify
          /\ ~addSubscriber'.notify
          /\ BadReg \in Range(addSubscriber.queue)) =>
            (event'.kind = "typeMismatch" /\ event'.mailbox = "addSubscriber")
      /\ (/\ rmSubscriber.notify
          /\ ~rmSubscriber'.notify
          /\ BadReg \in Range(rmSubscriber.queue)) =>
            (event'.kind = "typeMismatch" /\ event'.mailbox = "rmSubscriber")
      /\ (/\ BadHead \in Range(newHeads.queue)
          /\ newHeads'.queue = << >>) =>
            (event'.kind = "typeMismatch" /\ event'.mailbox = "newHeads")
      /\ event'.kind = "typeMismatch" =>
           /\ loopPc' = "eventLoop"
           /\ chStop' = chStop
           /\ logPool' = logPool
           /\ registrations' \subseteq AllRegIds
           /\ event'.mailbox = "addSubscriber" =>
                registrations' =
                  registrations \cup (Range(addSubscriber.queue) \ {BadReg})
           /\ event'.mailbox = "rmSubscriber" =>
                registrations' =
                  registrations \ (Range(rmSubscriber.queue) \ {BadReg})
           /\ event'.mailbox = "newHeads" =>
                /\ registrations' = registrations
                /\ lastSeenHeadNumber' = lastSeenHeadNumber
                /\ handled' = handled ]_vars

\* an item of the wrong type was skipped in a drain of the add-subscriber
\* mailbox that applied a registration, and the event loop runs on
C28_Witness ==
  /\ event.kind = "typeMismatch"
  /\ event.mailbox = "addSubscriber"
  /\ event.applied = {"R1"}
  /\ "R1" \in registrations
  /\ loopPc = "eventLoop"


\* what the sender of a channel has sent on it so far
sentOn(name) == appendInputs[name].sent

\* a channel that is nil, or closed with nothing left in it
finished(name) ==
  \/ appendInputs[name].isNil
  \/ appendInputs[name].closed /\ appendInputs[name].buf = << >>

IsPrefix(s, t) == Len(s) <= Len(t) /\ \A i \in DOMAIN s : s[i] = t[i]

\* C29: without a shutdown, what the event loop receives from
\* appendLogChannel(appendLogChannel(prior, backfilled), live) is always a
\* prefix of the logs sent on prior, then those sent on backfilled, then those
\* sent on live, each in the order of its channel; a goroutine is at its second
\* channel only when its first is nil or closed and drained; chCombined is
\* closed only when every channel is nil or drained and every log was handed
\* on; the result is nil exactly when both channels are nil; and once the
\* channels are all nil or closed, chCombined is eventually closed (or nil) with
\* every log received.
C29_ConcatenationOrder ==
  /\ [](/\ IsPrefix(eventLoopSaw,
                    sentOn("prior") \o sentOn("backfilled") \o sentOn("live"))
        /\ \A i \in 1..2 :
             /\ appendTasks[i].pc \in {"range2", "send2"} =>
                  chIsNil(i, 1) \/ chDrained(i, 1)
             /\ appendTasks[i].chCombined = "nil" <=>
                  chIsNil(i, 1) /\ chIsNil(i, 2)
             /\ appendTasks[i].chCombined = "closed" =>
                  /\ \A k \in 1..2 : chIsNil(i, k) \/ chDrained(i, k)
                  /\ appendTasks[i].rawLog = NoLog
        /\ appendTasks[2].chCombined = "closed" =>
             /\ \A name \in InputNames : finished(name)
             /\ eventLoopSaw =
                  sentOn("prior") \o sentOn("backfilled") \o sentOn("live"))
  /\ (\A name \in InputNames : appendInputs[name].isNil \/ appendInputs[name].closed)
       ~> (/\ appendTasks[2].chCombined \in {"closed", "nil"}
           /\ eventLoopSaw =
                sentOn("prior") \o sentOn("backfilled") \o sentOn("live"))

\* the event loop received prior logs, then a backfilled log, then a live log,
\* and chCombined is closed
C29_Witness ==
  /\ Len(eventLoopSaw) = 2 + MaxLogs
  /\ eventLoopSaw[1].from = "prior"
  /\ eventLoopSaw[MaxLogs + 1].from = "backfilled"
  /\ eventLoopSaw[MaxLogs + 2].from = "live"
  /\ appendTasks[2].chCombined = "closed"


\* C30: once chStop is closed, each goroutine of appendLogChannel eventually
\* closes its chCombined and returns, whether it waits to send a log that
\* nobody receives or waits to receive from a channel that is open and holds
\* nothing.
C30_ShutdownEndsAppend ==
  chStop ~> \A i \in 1..2 :
              \/ appendTasks[i].pc = "none"
              \/ appendTasks[i].pc = "returned" /\ appendTasks[i].chCombined = "closed"


\* C31: the await task and the resubscribe loop never run at the same time,
\* and the control task does not write backfill_block_number (nor the
\* registrations, the pool or highest_saved_head) while an external task is
\* inside BackfillBlockNumber() reading it.
C31_StateOwnership ==
  /\ [](~(awaitPc = "running" /\ loopPc \notin {"idle", "done"}))
  /\ [][ backfillReader.pc # "idle" =>
           backfillBlockNumber' = backfillBlockNumber ]_vars


\* C32: highest_num_confirmations is the greatest num_confirmations of the
\* registered listeners, and 0 when there are none; a drain of removals never
\* raises it, and it is below its former value once every listener that had
\* that value is gone.
C32_HighestConfirmations ==
  /\ registrations = {} => highestNumConfirmations = 0
  /\ registrations # {} =>
       /\ \E r \in registrations : Regs[r].numConfirmations = highestNumConfirmations
       /\ \A r \in registrations : Regs[r].numConfirmations <= highestNumConfirmations
  /\ event.kind = "onRmSubscribers" =>
       /\ highestNumConfirmations <= event.was
       /\ (\A r \in registrations : Regs[r].numConfirmations # event.was) =>
            (highestNumConfirmations < event.was \/ event.was = 0)

\* the listener with the greatest number of confirmations was removed and the
\* highest number went down to that of a remaining listener
C32_Witness ==
  /\ event.kind = "onRmSubscribers"
  /\ event.removed = {"R1"}
  /\ event.was = Regs["R1"].numConfirmations
  /\ registrations = {"R3"}
  /\ highestNumConfirmations = Regs["R3"].numConfirmations
  /\ highestNumConfirmations > 0


PlaceOf(log) ==
  (log.BlockNumber * (MaxIndex + 1) + log.TxIndex) * (MaxIndex + 1) + log.Index

\* C34: IsLaterThan(incoming, existing) is true exactly when incoming comes
\* strictly after existing in the order by (block_number, tx_index,
\* log_index); it is false for identical logs and never true both ways.
C34_IsLaterThanOrder ==
  event.kind = "IsLaterThan" =>
    /\ event.result <=> PlaceOf(event.incoming) > PlaceOf(event.existing)
    /\ event.incoming = event.existing => ~event.result
    /\ ~(event.result /\ event.converse)

\* two logs of one block and one log index, told apart by the transaction
C34_Witness ==
  /\ event.kind = "IsLaterThan"
  /\ event.incoming.BlockNumber = event.existing.BlockNumber
  /\ event.incoming.Index < event.existing.Index
  /\ event.incoming.TxIndex > event.existing.TxIndex
  /\ event.result
  /\ ~event.converse


\* C35: once the resubscribe loop has returned, every upstream subscription it
\* opened is unsubscribed, also the one opened just before a backfill that the
\* shutdown signal aborted.
C35_NoLeakedSubscription ==
  loopPc = "done" =>
    /\ leaked = 0
    /\ ~subscription.alive
    /\ ~newSubscription.alive


\* C36: once Close has returned, IsConnected() is false, whichever way the
\* resubscribe loop ended.
C36_DisconnectedAfterClose ==
  closePc = "returned" => ~connected


\* C37: in every dispatch pass that queries the consumptions, the inclusive
\* range [lo, hi] handed to FindConsumedLogs holds the block number of every
\* log handed to sendLogs: it is [lowest, highest] of the drained pool when
\* highest_num_confirmations is 0 and [min_block, H] otherwise; so no listener
\* is called for a log whose consumption by it is persisted.
C37_ConsumedRangeCovers ==
  (event.kind = "pass" /\ event.queried) =>
    /\ \A i \in DOMAIN event.logs :
         /\ event.lo <= Chain[event.logs[i]].blockNumber
         /\ Chain[event.logs[i]].blockNumber <= event.hi
    /\ \E i \in DOMAIN event.logs : Chain[event.logs[i]].blockNumber = event.lo
    /\ highestNumConfirmations = 0 =>
         \E i \in DOMAIN event.logs : Chain[event.logs[i]].blockNumber = event.hi
    /\ highestNumConfirmations # 0 => event.hi = event.head
    /\ \A i \in DOMAIN event.calls :
         ConsumedRow(event.calls[i].listener, event.calls[i].log) \notin consumed

\* a pass for listeners without confirmations drained a log of a block above
\* its head, asked for the consumptions up to that block, and called the
\* listener for that log
C37_Witness ==
  /\ event.kind = "pass"
  /\ event.queried
  /\ ~event.err
  /\ highestNumConfirmations = 0
  /\ event.hi > event.head
  /\ \E i \in DOMAIN event.calls :
       Chain[event.calls[i].log].blockNumber = event.hi


\* C38: a log that deleteOlderLogs evicts in a dispatch pass and that matches
\* a registered listener was handed to sendLogs in that pass, after a
\* successful FindConsumedLogs, with a head H for which
\* H - L.block_number + 1 >= num_confirmations of that listener; outside a
\* pass the pool loses a log only to a removed=true log.
C38_NoEvictionBeforeEligible ==
  [][ /\ (event'.kind = "pass" /\ highestNumConfirmations # 0) =>
           \A l \in logPool \ logPool' :
             \A r \in registrations :
               Matches(r, l) =>
                 /\ event'.queried
                 /\ ~event'.err
                 /\ \E i \in DOMAIN event'.logs : event'.logs[i] = l
                 /\ Confirmed(r, l, event'.head)
      /\ (event'.kind # "pass" /\ logPool' # logPool) =>
           logPool \ logPool' \subseteq removedLogs' ]_vars

\* a pass evicted a log of a registered listener with confirmations, having
\* called the listener for it under a head that confirms it
C38_Witness ==
  /\ event.kind = "pass"
  /\ highestNumConfirmations # 0
  /\ lastSeenHeadNumber = event.head
  /\ \E i \in DOMAIN event.calls :
       /\ event.calls[i].log \notin logPool
       /\ \E r \in registrations :
            /\ Regs[r].listener = event.calls[i].listener
            /\ Regs[r].numConfirmations > 0
            /\ Confirmed(r, event.calls[i].log, event.head)

====
